---- MODULE Spec2Model ----
(***************************************************************************)
(* A state-machine model of the CTS renderer: one renderer instance of one *)
(* of the three backends (WGLRenderer, WGL2Renderer, WGPURenderer), its    *)
(* resource registries, its state tracker, the native handles it has       *)
(* allocated, and the outcome of the last operation called on it.          *)
(*                                                                         *)
(* Abstractions.  Native objects are numbered handles (an index into       *)
(* `handles`, which records each handle's kind and whether it is still     *)
(* live).  A buffer's data is its byteLength.  A Map's iteration order is  *)
(* not kept: destroy() releases the entries name by name.  Listeners are   *)
(* not modelled here: `events` is the list of emit() calls an operation    *)
(* made.  A JavaScript TypeError thrown by a member access on null or      *)
(* undefined is the result "TypeError".                                    *)
(***************************************************************************)
EXTENDS Integers, Naturals, Sequences, FiniteSets, TLC

\* ------------------------------------------------------------------ bounds
\* Native handles the environment hands out in one run.
MaxHandles == 3
\* render() calls in one run.
MaxFrames == 2
\* Largest byteLength / texture extent an input carries.
MaxSize == 2

\* --------------------------------------------------------------- constants
Backends == {"wgl", "wgl2", "wgpu"}
Names == {"a", "b"}
\* A missing (undefined) name, handle or string option.
Undef == "undefined"
Keys == Names \cup {Undef}
\* null for a handle.
NoHandle == 0
\* config.data === undefined.
NoData == -1
Sizes == 1 .. MaxSize
\* Usage flags that are set; 0 is a missing / zero usage.
Usages == {1, 2}
\* gl.STATIC_DRAW
STATIC_DRAW == 35044
DefaultFormat == "rgba8unorm"
\* GPUTextureUsage.TEXTURE_BINDING | GPUTextureUsage.COPY_DST
DefaultTextureUsage == 6
\* GPUTextureUsage.RENDER_ATTACHMENT | GPUTextureUsage.TEXTURE_BINDING
RenderTargetUsage == 20
\* GPUTextureUsage.RENDER_ATTACHMENT
AttachmentUsage == 16
\* msaaTexture_ / depthStencilTexture_ === null.
NullTexture == [texture |-> NoHandle, width |-> 0, height |-> 0, sampleCount |-> 0]
\* No render pass was begun.
NoPass == [begun |-> FALSE]
DefaultStates == <<"clearColor", "depthTest", "blend", "cullFace">>

VARIABLES
  backend,             \* which renderer class the instance is
  isInitialized,       \* Renderer.isInitialized
  context,             \* WGLRenderer.context / WGPURenderer.context_
  device_,             \* WGPURenderer.device_
  initPc,              \* where a suspended WGPURenderer.initialize() stands
  canvasCtx,           \* the canvas already holds this backend's context
  canvas,              \* [width, height] of the canvas
  handles,             \* native handles: <<[kind, live, samples]>>
  buffers_, textures_, pipelines_, computePipelines_, samplers_,
  bindGroups_, bindGroupLayouts_, renderTargets_, shaderModules_,
  programs_, framebuffers_, VAOs_,
  currentPipeline_, currentProgram_, currentRenderTarget_, currentVAO_,
  msaaSampleCount_, msaaTexture_, depthEnabled_, depthStencilTexture_,
  currentVertexBuffers_, currentBindGroups_,
  glProgram,           \* the program natively bound in the GL context
  glVertexArray,       \* the vertex array natively bound in the GL context
  applied,             \* default render states the last initialize() applied
  frameCount_,
  lastPass,            \* the render pass the last render() began
  lastOp, lastResult, lastArg, lastRet, events, native,
  frameRenderedCount,  \* frameRendered events emitted so far
  wasDestroyed,        \* destroy() has returned and no initialize() since
  eventListeners_,     \* event -> its callbacks, in the order they were added
  renderState,         \* WebGL: the toggles and parameters the renderer stores
                       \* (tracker) and the ones last applied to the context
  dispatched           \* what the last operation's emit() calls did

lifecycleVars == <<isInitialized, context, device_, initPc, canvasCtx, applied, wasDestroyed>>
registryVars == <<buffers_, textures_, pipelines_, computePipelines_, samplers_,
                  bindGroups_, bindGroupLayouts_, renderTargets_, shaderModules_,
                  programs_, framebuffers_, VAOs_>>
trackerVars == <<currentPipeline_, currentProgram_, currentRenderTarget_, currentVAO_,
                 msaaSampleCount_, msaaTexture_, depthEnabled_, depthStencilTexture_,
                 currentVertexBuffers_, currentBindGroups_, glProgram, glVertexArray>>
frameVars == <<frameCount_, frameRenderedCount, lastPass>>
lastVars == <<lastOp, lastResult, lastArg, lastRet, events, native>>
listenerVars == <<eventListeners_, dispatched>>
vars == <<backend, canvas, handles, lifecycleVars, registryVars, trackerVars,
          frameVars, lastVars, listenerVars, renderState>>

\* ----------------------------------------------------------------- helpers
Empty == [k \in {} |-> NoHandle]
Has(reg, k) == k \in DOMAIN reg
\* A Map whose set() keeps the entry a key already has: what the registries
\* would be if a create call did not replace an entry.
PutIfAbsent(reg, k, v) ==
  [x \in DOMAIN reg \cup {k} |-> IF x \in DOMAIN reg THEN reg[x] ELSE v]
Put(reg, k, v) == [x \in DOMAIN reg \cup {k} |-> IF x = k THEN v ELSE reg[x]]
Del(reg, k) == [x \in DOMAIN reg \ {k} |-> reg[x]]

IsGL == backend \in {"wgl", "wgl2"}
IsGPU == backend = "wgpu"

\* A new native object of the given kind; its handle is NextHandle(h).
NextHandle(h) == Len(h) + 1
Alloc(h, kind, samples) == Append(h, [kind |-> kind, live |-> TRUE, samples |-> samples])
\* texture.destroy() / gl.delete*(): the native object is released.
Release(h, id) == [h EXCEPT ![id].live = FALSE]
RECURSIVE ReleaseAll(_, _)
ReleaseAll(h, ids) ==
  IF ids = {} THEN h
  ELSE LET id == CHOOSE x \in ids : TRUE
       IN ReleaseAll(Release(h, id), ids \ {id})
CanAlloc(n) == Len(handles) + n <= MaxHandles
Live(kinds) == {id \in DOMAIN handles : handles[id].live /\ handles[id].kind \in kinds}

\* Callbacks a page registers; Throwing ones throw when they are called.
Callbacks == {"f", "g"}
Throwing == {"g"}
\* The callbacks registered for an event, in insertion order.
ListenersOf(listeners, event) == IF Has(listeners, event) THEN listeners[event] ELSE <<>>
\* No listener was called.
NoDispatch == [invoked |-> <<>>, logged |-> <<>>, thrown |-> FALSE]

\* forEach without the try/catch: the first throwing callback ends the loop
\* and its exception leaves emit().
emitUnguarded(event, cbs) ==
  LET bad == {i \in DOMAIN cbs : cbs[i] \in Throwing}
      last == IF bad = {} THEN Len(cbs) ELSE CHOOSE i \in bad : \A j \in bad : i <= j
  IN [invoked |-> [i \in 1 .. last |-> <<event, cbs[i]>>],
      logged |-> <<>>,
      thrown |-> bad # {}]

\* emit(event, data) over the event's callbacks cbs: each is called inside a
\* try/catch that logs with console.error; nothing is thrown.
emit(event, cbs) ==
  [invoked |-> [i \in DOMAIN cbs |-> <<event, cbs[i]>>],
   logged |-> [i \in 1 .. Cardinality({j \in DOMAIN cbs : cbs[j] \in Throwing}) |-> event],
   thrown |-> FALSE]

\* The emit() calls of one operation, in order; an exception that leaves
\* emit() ends the operation.
RECURSIVE Dispatch(_, _)
Dispatch(listeners, evs) ==
  IF evs = <<>> THEN NoDispatch
  ELSE LET first == emit(Head(evs), ListenersOf(listeners, Head(evs)))
           rest == Dispatch(listeners, Tail(evs))
       IN IF first.thrown THEN first
          ELSE [invoked |-> first.invoked \o rest.invoked,
                logged |-> first.logged \o rest.logged,
                thrown |-> rest.thrown]

\* The render state of a new WGLRenderer: the constructor's fields, and a
\* context with its capabilities off and no parameter applied yet.
InitialRenderState ==
  [tracker |-> [blend |-> FALSE, blendFunc |-> "SRC_ALPHA", depthTest |-> FALSE,
                depthFunc |-> "LESS", cullFace |-> FALSE, cullMode |-> "BACK"],
   applied |-> [blend |-> FALSE, blendFunc |-> "none", depthTest |-> FALSE,
                depthFunc |-> "none", cullFace |-> FALSE, cullMode |-> "none"]]

\* setBlendState(enabled, func) on a context: blendEnabled_ is stored, the
\* toggle is applied, and with it the factors when enabling; blendFunc_ is
\* not written.  func = Undef is the omitted argument, this.blendFunc_.
ApplyBlendState(st, enabled, func) ==
  [tracker |-> [st.tracker EXCEPT !.blend = enabled],
   applied |-> [st.applied EXCEPT
                  !.blend = enabled,
                  !.blendFunc = IF enabled
                                THEN (IF func = Undef THEN st.tracker.blendFunc ELSE func)
                                ELSE @]]
\* setDepthTest(enabled, func): both are stored; the function is applied
\* only when enabling.  func = Undef is the omitted argument, LESS.
ApplyDepthTest(st, enabled, func) ==
  LET f == IF func = Undef THEN "LESS" ELSE func
  IN [tracker |-> [st.tracker EXCEPT !.depthTest = enabled, !.depthFunc = f],
      applied |-> [st.applied EXCEPT !.depthTest = enabled,
                                     !.depthFunc = IF enabled THEN f ELSE @]]
\* setCullFace(enabled, mode): both are stored; the mode is applied only
\* when enabling.  mode = Undef is the omitted argument, BACK.
ApplyCullFace(st, enabled, mode) ==
  LET m == IF mode = Undef THEN "BACK" ELSE mode
  IN [tracker |-> [st.tracker EXCEPT !.cullFace = enabled, !.cullMode = m],
      applied |-> [st.applied EXCEPT !.cullFace = enabled,
                                     !.cullMode = IF enabled THEN m ELSE @]]

\* The outcome of the operation that just ran.
Outcome(op, result, arg, ret, evs, nat) ==
  /\ lastOp' = op
  /\ lastResult' = result
  /\ lastArg' = arg
  /\ lastRet' = ret
  /\ events' = evs
  /\ native' = nat
  /\ dispatched' = Dispatch(eventListeners_, evs)
  /\ UNCHANGED eventListeners_

RECURSIVE Repeat(_, _)
Repeat(x, n) == IF n = 0 THEN <<>> ELSE <<x>> \o Repeat(x, n - 1)

Init ==
  /\ backend \in Backends
  /\ isInitialized = FALSE
  /\ context = "null"
  /\ device_ = "null"
  /\ initPc = "idle"
  /\ canvasCtx = FALSE
  /\ canvas = [width |-> 1, height |-> 1]
  /\ handles = <<>>
  /\ buffers_ = Empty /\ textures_ = Empty /\ pipelines_ = Empty
  /\ computePipelines_ = Empty /\ samplers_ = Empty /\ bindGroups_ = Empty
  /\ bindGroupLayouts_ = Empty /\ renderTargets_ = Empty /\ shaderModules_ = Empty
  /\ programs_ = Empty /\ framebuffers_ = Empty /\ VAOs_ = Empty
  /\ currentPipeline_ = Undef /\ currentProgram_ = Undef
  /\ currentRenderTarget_ = Undef /\ currentVAO_ = Undef
  /\ msaaSampleCount_ = 1 /\ msaaTexture_ = NullTexture
  /\ depthEnabled_ = FALSE /\ depthStencilTexture_ = NullTexture
  /\ currentVertexBuffers_ = Empty /\ currentBindGroups_ = Empty
  /\ glProgram = NoHandle /\ glVertexArray = NoHandle
  /\ applied = <<>>
  /\ frameCount_ = 0 /\ frameRenderedCount = 0 /\ lastPass = NoPass
  /\ lastOp = "new" /\ lastResult = "ok" /\ lastArg = Undef /\ lastRet = NoHandle
  /\ events = <<>> /\ native = <<>>
  /\ wasDestroyed = FALSE
  /\ eventListeners_ = Empty /\ dispatched = NoDispatch
  /\ renderState = InitialRenderState

\* ------------------------------------------------------------- lifecycle
\* What initialize() learns from the static isSupported() of its class.
Probe(supported) == [supported |-> supported]

\* WGLRenderer.initialize() and WGL2Renderer.initialize(): no await inside, so
\* the call runs to its end in one step.  `supported` is what the static
\* isSupported() probe returns, `ctxOk` whether canvas.getContext() returns a
\* context; a canvas that already holds the context returns it again.
GLInitialize(supported, ctxOk) ==
  /\ IsGL
  /\ (canvasCtx => ctxOk)
  /\ IF ~supported
     THEN /\ Outcome("initialize", "UnsupportedBackend", Probe(supported), NoHandle,
                     <<>>, <<>>)
          /\ UNCHANGED <<isInitialized, context, canvasCtx, applied, wasDestroyed,
                         renderState>>
     ELSE IF ~ctxOk
     THEN /\ context' = "null"
          /\ Outcome("initialize", "ContextAcquisitionFailed", Probe(supported), NoHandle,
                     <<"error">>, <<"getContext">>)
          /\ UNCHANGED <<isInitialized, canvasCtx, applied, wasDestroyed, renderState>>
     ELSE /\ context' = "gl"
          /\ canvasCtx' = TRUE
          /\ applied' = DefaultStates
          /\ renderState' =
               ApplyCullFace(
                 ApplyBlendState(
                   ApplyDepthTest(renderState, renderState.tracker.depthTest, Undef),
                   renderState.tracker.blend, Undef),
                 renderState.tracker.cullFace, renderState.tracker.cullMode)
          /\ isInitialized' = TRUE
          /\ wasDestroyed' = FALSE
          /\ Outcome("initialize", "ok", Probe(supported), NoHandle, <<"initialized">>,
                     <<"getContext", "clearColor", "depthTest", "blend", "cullFace">>)
  /\ UNCHANGED <<backend, canvas, handles, device_, initPc, registryVars,
                 trackerVars, frameVars>>

WGL_initialize(supported, ctxOk) ==
  /\ backend = "wgl"
  /\ GLInitialize(supported, ctxOk)

WGL2_initialize(supported, ctxOk) ==
  /\ backend = "wgl2"
  /\ GLInitialize(supported, ctxOk)

\* initialize() without the support probe: the adapter is requested at once.
initializeUnprobed(supported) ==
  /\ IsGPU
  /\ initPc = "idle"
  /\ initPc' = "awaitAdapter"
  /\ Outcome("initialize", "pending", Probe(supported), NoHandle, <<>>, <<"requestAdapter">>)
  /\ UNCHANGED <<backend, renderState, canvas, handles, isInitialized, context, device_, canvasCtx,
                 applied, wasDestroyed, registryVars, trackerVars, frameVars>>

\* WGPURenderer.initialize(), up to its first await (requestAdapter).
WGPU_initialize(supported) ==
  /\ IsGPU
  /\ initPc = "idle"
  /\ IF ~supported
     THEN /\ Outcome("initialize", "UnsupportedBackend", Probe(supported), NoHandle,
                     <<>>, <<>>)
          /\ UNCHANGED initPc
     ELSE /\ initPc' = "awaitAdapter"
          /\ Outcome("initialize", "pending", Probe(supported), NoHandle, <<>>,
                     <<"requestAdapter">>)
  /\ UNCHANGED <<backend, renderState, canvas, handles, isInitialized, context, device_, canvasCtx,
                 applied, wasDestroyed, registryVars, trackerVars, frameVars>>

\* initialize() resumes with the adapter and suspends on requestDevice().
WGPU_initialize_adapter(adapterOk) ==
  /\ IsGPU
  /\ initPc = "awaitAdapter"
  /\ IF ~adapterOk
     THEN /\ initPc' = "idle"
          /\ Outcome("initialize", "ContextAcquisitionFailed", Undef, NoHandle,
                     <<"error">>, <<>>)
     ELSE /\ initPc' = "awaitDevice"
          /\ Outcome("initialize", "pending", Undef, NoHandle, <<>>, <<"requestDevice">>)
  /\ UNCHANGED <<backend, renderState, canvas, handles, isInitialized, context, device_, canvasCtx,
                 applied, wasDestroyed, registryVars, trackerVars, frameVars>>

\* initialize() resumes with the device (or null), takes the canvas context,
\* configures it and ends.  No render state setter is called.
WGPU_initialize_device(deviceOk, ctxOk) ==
  /\ IsGPU
  /\ initPc = "awaitDevice"
  /\ (canvasCtx => ctxOk)
  /\ initPc' = "idle"
  /\ IF ~deviceOk
     THEN /\ device_' = "null"
          /\ Outcome("initialize", "ContextAcquisitionFailed", Undef, NoHandle,
                     <<"error">>, <<>>)
          /\ UNCHANGED <<isInitialized, context, canvasCtx, applied, wasDestroyed>>
     ELSE IF ~ctxOk
     THEN /\ device_' = "device"
          /\ context' = "null"
          /\ Outcome("initialize", "ContextAcquisitionFailed", Undef, NoHandle,
                     <<"error">>, <<"getContext">>)
          /\ UNCHANGED <<isInitialized, canvasCtx, applied, wasDestroyed>>
     ELSE /\ device_' = "device"
          /\ context' = "gpu"
          /\ canvasCtx' = TRUE
          /\ applied' = <<>>
          /\ isInitialized' = TRUE
          /\ wasDestroyed' = FALSE
          /\ Outcome("initialize", "ok", Undef, NoHandle, <<"initialized">>,
                     <<"getContext", "configure">>)
  /\ UNCHANGED <<backend, renderState, canvas, handles, registryVars, trackerVars, frameVars>>

\* The native handles a registry of metadata records holds.
BufferHandles(reg) == {reg[k].buffer : k \in DOMAIN reg}
TextureHandles(reg) == {reg[k].texture : k \in DOMAIN reg}
Range(reg) == {reg[k] : k \in DOMAIN reg}

\* destroy() that reaches for the device before anything else: a call on a
\* renderer that has no device throws.
destroyThroughDevice ==
  /\ IsGPU
  /\ IF device_ = "null"
     THEN /\ Outcome("destroy", "TypeError", Undef, NoHandle, <<>>, <<>>)
          /\ UNCHANGED <<handles, buffers_, textures_, renderTargets_, pipelines_,
                         computePipelines_, samplers_, bindGroups_, shaderModules_,
                         device_, context, isInitialized, wasDestroyed>>
     ELSE /\ handles' = ReleaseAll(handles, BufferHandles(buffers_)
                                    \cup TextureHandles(textures_)
                                    \cup TextureHandles(renderTargets_))
          /\ buffers_' = Empty
          /\ textures_' = Empty
          /\ renderTargets_' = Empty
          /\ pipelines_' = Empty
          /\ computePipelines_' = Empty
          /\ samplers_' = Empty
          /\ bindGroups_' = Empty
          /\ shaderModules_' = Empty
          /\ device_' = "null"
          /\ context' = "null"
          /\ isInitialized' = FALSE
          /\ wasDestroyed' = TRUE
          /\ Outcome("destroy", "ok", Undef, NoHandle,
                     Repeat("bufferDestroyed", Cardinality(DOMAIN buffers_))
                       \o Repeat("textureDestroyed", Cardinality(DOMAIN textures_))
                       \o Repeat("renderTargetDestroyed", Cardinality(DOMAIN renderTargets_))
                       \o <<"destroyed">>,
                     Repeat("destroy", Cardinality(DOMAIN buffers_)
                                         + Cardinality(DOMAIN textures_)
                                         + Cardinality(DOMAIN renderTargets_)))
  /\ UNCHANGED <<backend, renderState, canvas, initPc, canvasCtx, applied, bindGroupLayouts_,
                 programs_, framebuffers_, VAOs_, trackerVars, frameVars>>

\* WGPURenderer.destroy().
WGPU_destroy ==
  /\ IsGPU
  /\ handles' = ReleaseAll(handles, BufferHandles(buffers_) \cup TextureHandles(textures_)
                                      \cup TextureHandles(renderTargets_))
  /\ buffers_' = Empty
  /\ textures_' = Empty
  /\ renderTargets_' = Empty
  /\ pipelines_' = Empty
  /\ computePipelines_' = Empty
  /\ samplers_' = Empty
  /\ bindGroups_' = Empty
  /\ shaderModules_' = Empty
  /\ device_' = "null"
  /\ context' = "null"
  /\ isInitialized' = FALSE
  /\ wasDestroyed' = TRUE
  /\ Outcome("destroy", "ok", Undef, NoHandle,
             Repeat("bufferDestroyed", Cardinality(DOMAIN buffers_))
               \o Repeat("textureDestroyed", Cardinality(DOMAIN textures_))
               \o Repeat("renderTargetDestroyed", Cardinality(DOMAIN renderTargets_))
               \o <<"destroyed">>,
             Repeat("destroy", Cardinality(DOMAIN buffers_) + Cardinality(DOMAIN textures_)
                                 + Cardinality(DOMAIN renderTargets_)))
  /\ UNCHANGED <<backend, renderState, canvas, initPc, canvasCtx, applied, bindGroupLayouts_,
                 programs_, framebuffers_, VAOs_, trackerVars, frameVars>>

\* WGLRenderer.destroy(), inherited by WGL2Renderer.  A program's two shaders
\* are part of its handle.  With the context already null the first delete
\* call throws; then nothing is registered, so no delete call is made.
\* Everything but the render state and the record of the last operation.
RenderStateFrame ==
  UNCHANGED <<backend, canvas, handles, lifecycleVars, registryVars, trackerVars,
              frameVars>>

\* setBlendState(enabled, func): with no context the call fails on
\* this.context.enable, after blendEnabled_ was stored.
WGL_setBlendState(enabled, func) ==
  /\ IsGL
  /\ IF context = "null"
     THEN /\ renderState' = [renderState EXCEPT !.tracker.blend = enabled]
          /\ Outcome("setBlendState", "TypeError", [enabled |-> enabled, func |-> func],
                     NoHandle, <<>>, <<>>)
     ELSE /\ renderState' = ApplyBlendState(renderState, enabled, func)
          /\ Outcome("setBlendState", "ok", [enabled |-> enabled, func |-> func],
                     NoHandle, <<>>, IF enabled THEN <<"enable", "blendFunc">>
                                                ELSE <<"disable">>)
  /\ RenderStateFrame

\* setDepthTest(enabled, func): with no context the default argument
\* this.context.LESS fails before anything is stored; an explicit func is
\* stored before this.context.enable fails.
WGL_setDepthTest(enabled, func) ==
  /\ IsGL
  /\ IF context = "null"
     THEN /\ renderState' = IF func = Undef THEN renderState
                            ELSE [renderState EXCEPT !.tracker.depthTest = enabled,
                                                     !.tracker.depthFunc = func]
          /\ Outcome("setDepthTest", "TypeError", [enabled |-> enabled, func |-> func],
                     NoHandle, <<>>, <<>>)
     ELSE /\ renderState' = ApplyDepthTest(renderState, enabled, func)
          /\ Outcome("setDepthTest", "ok", [enabled |-> enabled, func |-> func],
                     NoHandle, <<>>, IF enabled THEN <<"enable", "depthFunc">>
                                                ELSE <<"disable">>)
  /\ RenderStateFrame

\* setCullFace(enabled, mode): as setDepthTest, with this.context.BACK.
WGL_setCullFace(enabled, mode) ==
  /\ IsGL
  /\ IF context = "null"
     THEN /\ renderState' = IF mode = Undef THEN renderState
                            ELSE [renderState EXCEPT !.tracker.cullFace = enabled,
                                                     !.tracker.cullMode = mode]
          /\ Outcome("setCullFace", "TypeError", [enabled |-> enabled, func |-> mode],
                     NoHandle, <<>>, <<>>)
     ELSE /\ renderState' = ApplyCullFace(renderState, enabled, mode)
          /\ Outcome("setCullFace", "ok", [enabled |-> enabled, func |-> mode],
                     NoHandle, <<>>, IF enabled THEN <<"enable", "cullFace">>
                                                ELSE <<"disable">>)
  /\ RenderStateFrame

WGL_destroy ==
  /\ IsGL
  /\ IF context = "null" /\ DOMAIN programs_ \cup DOMAIN buffers_ \cup DOMAIN textures_
                              \cup DOMAIN framebuffers_ # {}
     THEN /\ Outcome("destroy", "TypeError", Undef, NoHandle, <<>>, <<>>)
          /\ UNCHANGED <<handles, programs_, buffers_, textures_, framebuffers_,
                         context, isInitialized, wasDestroyed>>
     ELSE /\ handles' = ReleaseAll(handles, Range(programs_) \cup BufferHandles(buffers_)
                                    \cup TextureHandles(textures_) \cup Range(framebuffers_))
          /\ programs_' = Empty
          /\ buffers_' = Empty
          /\ textures_' = Empty
          /\ framebuffers_' = Empty
          /\ context' = "null"
          /\ isInitialized' = FALSE
          /\ wasDestroyed' = TRUE
          /\ Outcome("destroy", "ok", Undef, NoHandle, <<"destroyed">>,
                     Repeat("delete", Cardinality(DOMAIN programs_) + Cardinality(DOMAIN buffers_)
                              + Cardinality(DOMAIN textures_) + Cardinality(DOMAIN framebuffers_)))
  /\ UNCHANGED <<backend, renderState, canvas, device_, initPc, canvasCtx, applied, pipelines_,
                 computePipelines_, samplers_, bindGroups_, bindGroupLayouts_,
                 renderTargets_, shaderModules_, VAOs_, trackerVars, frameVars>>

\* --------------------------------------------------------------- buffers
GPUBufferConfigs ==
  [name : Keys, data : {NoData} \cup Sizes, usage : {0} \cup Usages,
   indexFormat : {Undef, "uint32"}]
GLBufferConfigs ==
  [name : Keys, data : {NoData} \cup Sizes, usage : {0} \cup Usages,
   type : {Undef, "ELEMENT_ARRAY_BUFFER"}]

\* WGPURenderer.createBuffer(config).
WGPU_createBuffer(config) ==
  /\ IsGPU
  /\ IF ~isInitialized
     THEN /\ Outcome("createBuffer", "NotInitialized", config, NoHandle, <<>>, <<>>)
          /\ UNCHANGED <<handles, buffers_>>
     ELSE IF config.name = Undef
     THEN /\ Outcome("createBuffer", "InvalidConfig:name", config, NoHandle, <<>>, <<>>)
          /\ UNCHANGED <<handles, buffers_>>
     ELSE IF config.data = NoData
     THEN /\ Outcome("createBuffer", "InvalidConfig:data", config, NoHandle, <<>>, <<>>)
          /\ UNCHANGED <<handles, buffers_>>
     ELSE IF config.usage = 0
     THEN /\ Outcome("createBuffer", "InvalidConfig:usage", config, NoHandle, <<>>, <<>>)
          /\ UNCHANGED <<handles, buffers_>>
     ELSE IF device_ = "null"
     THEN /\ Outcome("createBuffer", "TypeError", config, NoHandle, <<>>, <<>>)
          /\ UNCHANGED <<handles, buffers_>>
     ELSE /\ CanAlloc(1)
          /\ handles' = Alloc(handles, "buffer", 1)
          /\ buffers_' = Put(buffers_, config.name,
                             [buffer |-> NextHandle(handles), size |-> config.data,
                              usage |-> config.usage, indexFormat |-> config.indexFormat])
          /\ Outcome("createBuffer", "ok", config, NextHandle(handles), <<"bufferCreated">>,
                     <<"createBuffer", "getMappedRange", "unmap">>)
  /\ UNCHANGED <<backend, renderState, canvas, lifecycleVars, textures_, pipelines_, computePipelines_,
                 samplers_, bindGroups_, bindGroupLayouts_, renderTargets_, shaderModules_,
                 programs_, framebuffers_, VAOs_, trackerVars, frameVars>>

\* WGLRenderer.createBuffer(config), inherited by WGL2Renderer.  No field of
\* the config is validated: a missing usage or type takes its default, a
\* missing name is the Map key undefined, and missing data throws at
\* config.data.byteLength, after the native buffer was created and bound.
WGL_createBuffer(config) ==
  /\ IsGL
  /\ IF ~isInitialized
     THEN /\ Outcome("createBuffer", "NotInitialized", config, NoHandle, <<>>, <<>>)
          /\ UNCHANGED <<handles, buffers_>>
     ELSE IF config.data = NoData
     THEN /\ CanAlloc(1)
          /\ handles' = Alloc(handles, "buffer", 1)
          /\ Outcome("createBuffer", "TypeError", config, NoHandle, <<>>,
                     <<"createBuffer", "bindBuffer", "bufferData">>)
          /\ UNCHANGED buffers_
     ELSE /\ CanAlloc(1)
          /\ handles' = Alloc(handles, "buffer", 1)
          /\ buffers_' = Put(buffers_, config.name,
                             [buffer |-> NextHandle(handles), size |-> config.data,
                              usage |-> IF config.usage = 0 THEN STATIC_DRAW ELSE config.usage,
                              type |-> IF config.type = Undef THEN "ARRAY_BUFFER" ELSE config.type])
          /\ Outcome("createBuffer", "ok", config, NextHandle(handles), <<"bufferCreated">>,
                     <<"createBuffer", "bindBuffer", "bufferData", "bindBuffer">>)
  /\ UNCHANGED <<backend, renderState, canvas, lifecycleVars, textures_, pipelines_, computePipelines_,
                 samplers_, bindGroups_, bindGroupLayouts_, renderTargets_, shaderModules_,
                 programs_, framebuffers_, VAOs_, trackerVars, frameVars>>

\* What an update call is given: the byteLength of the data, the byteLength
\* of the ArrayBuffer behind it (the same for an ArrayBuffer or a view of a
\* whole one, larger for a view of a part of one), and the offset.
UpdateArgs ==
  {a \in [name : Keys, data : Sizes, backing : Sizes, offset : 0 .. 1] : a.data <= a.backing}

\* WGPURenderer.updateBuffer: data instanceof ArrayBuffer ? data : data.buffer,
\* as the byteLength of what is written.
dataToWrite(arg) == arg.backing

\* The native write an update call makes.
Write(buffer, offset, bytes) == [buffer |-> buffer, offset |-> offset, bytes |-> bytes]

\* An unknown name ignored without a word: what a call would do if it
\* returned instead of throwing.
Ignored(op, arg) == Outcome(op, "ok", arg, NoHandle, <<>>, <<>>)

\* The outcome of a call that throws '... not found'.
Missing(op, arg) == Outcome(op, "NotFound", arg, NoHandle, <<>>, <<>>)

\* WGPURenderer.updateBuffer(name, data, offset).
WGPU_updateBuffer(arg) ==
  /\ IsGPU
  /\ IF ~isInitialized
     THEN Outcome("updateBuffer", "NotInitialized", arg, NoHandle, <<>>, <<>>)
     ELSE IF ~Has(buffers_, arg.name)
     THEN Missing("updateBuffer", arg)
     ELSE IF device_ = "null"
     THEN Outcome("updateBuffer", "TypeError", arg, NoHandle, <<>>,
                  IF arg.offset + dataToWrite(arg) > buffers_[arg.name].size
                  THEN <<"console.warn">> ELSE <<>>)
     ELSE Outcome("updateBuffer", "ok", arg,
                  Write(buffers_[arg.name].buffer, arg.offset, dataToWrite(arg)),
                  <<"bufferUpdated">>,
                  IF arg.offset + dataToWrite(arg) > buffers_[arg.name].size
                  THEN <<"console.warn", "writeBuffer">> ELSE <<"writeBuffer">>)
  /\ UNCHANGED <<backend, renderState, canvas, handles, lifecycleVars, registryVars, trackerVars, frameVars>>

\* WGLRenderer.updateBuffer(name, data, offset), inherited by WGL2Renderer.
\* The data goes to the context as it was given.
WGL_updateBuffer(arg) ==
  /\ IsGL
  /\ IF ~Has(buffers_, arg.name)
     THEN Missing("updateBuffer", arg)
     ELSE IF context = "null"
     THEN Outcome("updateBuffer", "TypeError", arg, NoHandle, <<>>, <<>>)
     ELSE Outcome("updateBuffer", "ok", arg,
                  Write(buffers_[arg.name].buffer, arg.offset, arg.data),
                  <<"bufferUpdated">>,
                  IF arg.offset = 0 /\ arg.data = buffers_[arg.name].size
                  THEN <<"bindBuffer", "bufferData", "bindBuffer">>
                  ELSE <<"bindBuffer", "bufferSubData", "bindBuffer">>)
  /\ UNCHANGED <<backend, renderState, canvas, handles, lifecycleVars, registryVars, trackerVars, frameVars>>

\* WGPURenderer.destroyBuffer(name).
WGPU_destroyBuffer(name) ==
  /\ IsGPU
  /\ IF Has(buffers_, name)
     THEN /\ handles' = Release(handles, buffers_[name].buffer)
          /\ buffers_' = Del(buffers_, name)
          /\ Outcome("destroyBuffer", "ok", name, NoHandle, <<"bufferDestroyed">>, <<"destroy">>)
     ELSE /\ Outcome("destroyBuffer", "ok", name, NoHandle, <<>>, <<>>)
          /\ UNCHANGED <<handles, buffers_>>
  /\ UNCHANGED <<backend, renderState, canvas, lifecycleVars, textures_, pipelines_, computePipelines_,
                 samplers_, bindGroups_, bindGroupLayouts_, renderTargets_, shaderModules_,
                 programs_, framebuffers_, VAOs_, trackerVars, frameVars>>

\* -------------------------------------------------------------- textures
GPUTextureConfigs ==
  [name : Keys, width : Sizes, height : Sizes, format : {Undef, "r8unorm"},
   usage : {0, AttachmentUsage}]
GLTextureConfigs ==
  [name : Keys, width : Sizes, height : Sizes, format : {Undef, "RGB"},
   internalFormat : {Undef}]

\* Metadata with the two extents exchanged: what createTexture would store
\* if it confused them.
TransposedMetadata(config, texture) ==
  [texture |-> texture, width |-> config.height, height |-> config.width,
   format |-> IF config.format = Undef THEN DefaultFormat ELSE config.format,
   usage |-> IF config.usage = 0 THEN DefaultTextureUsage ELSE config.usage]

\* The metadata WGPURenderer.createTexture stores for a config.
GPUTextureMetadata(config, texture) ==
  [texture |-> texture, width |-> config.width, height |-> config.height,
   format |-> IF config.format = Undef THEN DefaultFormat ELSE config.format,
   usage |-> IF config.usage = 0 THEN DefaultTextureUsage ELSE config.usage]

\* WGPURenderer.createTexture(config).
WGPU_createTexture(config) ==
  /\ IsGPU
  /\ IF ~isInitialized
     THEN /\ Outcome("createTexture", "NotInitialized", config, NoHandle, <<>>, <<>>)
          /\ UNCHANGED <<handles, textures_>>
     ELSE IF device_ = "null"
     THEN /\ Outcome("createTexture", "TypeError", config, NoHandle, <<>>, <<>>)
          /\ UNCHANGED <<handles, textures_>>
     ELSE /\ CanAlloc(1)
          /\ handles' = Alloc(handles, "texture", 1)
          /\ textures_' = Put(textures_, config.name,
                              GPUTextureMetadata(config, NextHandle(handles)))
          /\ Outcome("createTexture", "ok", config, NextHandle(handles),
                     <<"textureCreated">>, <<"createTexture", "createView">>)
  /\ UNCHANGED <<backend, renderState, canvas, lifecycleVars, buffers_, pipelines_, computePipelines_,
                 samplers_, bindGroups_, bindGroupLayouts_, renderTargets_, shaderModules_,
                 programs_, framebuffers_, VAOs_, trackerVars, frameVars>>

\* WGLRenderer.createTexture(config), inherited by WGL2Renderer.
WGL_createTexture(config) ==
  /\ IsGL
  /\ IF ~isInitialized
     THEN /\ Outcome("createTexture", "NotInitialized", config, NoHandle, <<>>, <<>>)
          /\ UNCHANGED <<handles, textures_>>
     ELSE /\ CanAlloc(1)
          /\ handles' = Alloc(handles, "texture", 1)
          /\ textures_' = Put(textures_, config.name,
               [texture |-> NextHandle(handles), width |-> config.width,
                height |-> config.height,
                format |-> IF config.format = Undef THEN "RGBA" ELSE config.format,
                internalFormat |-> IF config.internalFormat = Undef THEN "RGBA"
                                   ELSE config.internalFormat])
          /\ Outcome("createTexture", "ok", config, NextHandle(handles),
                     <<"textureCreated">>,
                     <<"createTexture", "bindTexture", "texParameteri", "texImage2D",
                       "bindTexture">>)
  /\ UNCHANGED <<backend, renderState, canvas, lifecycleVars, buffers_, pipelines_, computePipelines_,
                 samplers_, bindGroups_, bindGroupLayouts_, renderTargets_, shaderModules_,
                 programs_, framebuffers_, VAOs_, trackerVars, frameVars>>

\* WGPURenderer.destroyTexture(name).
WGPU_destroyTexture(name) ==
  /\ IsGPU
  /\ IF Has(textures_, name)
     THEN /\ handles' = Release(handles, textures_[name].texture)
          /\ textures_' = Del(textures_, name)
          /\ Outcome("destroyTexture", "ok", name, NoHandle, <<"textureDestroyed">>,
                     <<"destroy">>)
     ELSE /\ Outcome("destroyTexture", "ok", name, NoHandle, <<>>, <<>>)
          /\ UNCHANGED <<handles, textures_>>
  /\ UNCHANGED <<backend, renderState, canvas, lifecycleVars, buffers_, pipelines_, computePipelines_,
                 samplers_, bindGroups_, bindGroupLayouts_, renderTargets_, shaderModules_,
                 programs_, framebuffers_, VAOs_, trackerVars, frameVars>>

\* width / height of an updateTexture call; 0 is an omitted (falsy) one.
TextureUpdateArgs == [name : Keys, width : {0} \cup Sizes, height : {0} \cup Sizes]

\* The test updateTexture makes before it recreates the texture.
needsResize(meta, width, height) ==
  /\ width # 0
  /\ height # 0
  /\ (width # meta.width \/ height # meta.height)

\* WGPURenderer.updateTexture(name, data, width, height).  On a resize it
\* calls destroyTexture(name), then createTexture with the stored format and
\* usage, and writes to the new texture; otherwise it writes to the stored one.
WGPU_updateTexture(arg) ==
  /\ IsGPU
  /\ IF ~Has(textures_, arg.name)
     THEN /\ Outcome("updateTexture", "NotFound", arg, NoHandle, <<>>, <<>>)
          /\ UNCHANGED <<handles, textures_>>
     ELSE LET meta == textures_[arg.name]
          IN IF needsResize(meta, arg.width, arg.height)
             THEN IF ~isInitialized
                  THEN /\ handles' = Release(handles, meta.texture)
                       /\ textures_' = Del(textures_, arg.name)
                       /\ Outcome("updateTexture", "NotInitialized", arg, NoHandle,
                                  <<"textureDestroyed">>, <<"destroy">>)
                  ELSE IF device_ = "null"
                  THEN /\ handles' = Release(handles, meta.texture)
                       /\ textures_' = Del(textures_, arg.name)
                       /\ Outcome("updateTexture", "TypeError", arg, NoHandle,
                                  <<"textureDestroyed">>, <<"destroy">>)
                  ELSE /\ CanAlloc(1)
                       /\ handles' = Alloc(Release(handles, meta.texture), "texture", 1)
                       /\ textures_' = Put(textures_, arg.name,
                            GPUTextureMetadata([width |-> arg.width, height |-> arg.height,
                                                format |-> meta.format, usage |-> meta.usage],
                                               NextHandle(handles)))
                       /\ Outcome("updateTexture", "ok", arg, NextHandle(handles),
                                  <<"textureDestroyed", "textureCreated", "textureUpdated">>,
                                  <<"destroy", "createTexture", "createView", "writeTexture">>)
             ELSE IF device_ = "null"
             THEN /\ Outcome("updateTexture", "TypeError", arg, NoHandle, <<>>, <<>>)
                  /\ UNCHANGED <<handles, textures_>>
             ELSE /\ Outcome("updateTexture", "ok", arg, meta.texture, <<"textureUpdated">>,
                             <<"writeTexture">>)
                  /\ UNCHANGED <<handles, textures_>>
  /\ UNCHANGED <<backend, renderState, canvas, lifecycleVars, buffers_, pipelines_, computePipelines_,
                 samplers_, bindGroups_, bindGroupLayouts_, renderTargets_, shaderModules_,
                 programs_, framebuffers_, VAOs_, trackerVars, frameVars>>

\* ------------------------------------------- pipelines and bind groups
ShaderCodes == {"s1", "s2"}
PipelineConfigs == [shaders : ShaderCodes, bindGroupLayouts : BOOLEAN]

\* getShaderModule_ without the cache test: every call compiles.
alwaysCompile(mods, h, code) == Put(mods, code, NextHandle(h))

\* WGPURenderer.getShaderModule_(code): the cache after the call.  A miss
\* compiles a module, whose handle is NextHandle(h).
getShaderModule_(mods, h, code) ==
  IF Has(mods, code) THEN mods ELSE Put(mods, code, NextHandle(h))
\* The handles after getShaderModule_(code).
ShaderHandles(mods, h, code) ==
  IF Has(mods, code) THEN h ELSE Alloc(h, "shaderModule", 1)

\* WGPURenderer.createPipeline(name, config).  The pipeline takes the
\* sample count the renderer has at this moment.
WGPU_createPipeline(name, config) ==
  /\ IsGPU
  /\ IF ~isInitialized
     THEN /\ Outcome("createPipeline", "NotInitialized", name, NoHandle, <<>>, <<>>)
          /\ UNCHANGED <<handles, pipelines_, shaderModules_>>
     ELSE IF device_ = "null"
     THEN /\ Outcome("createPipeline", "TypeError", name, NoHandle, <<>>, <<>>)
          /\ UNCHANGED <<handles, pipelines_, shaderModules_>>
     ELSE LET h1 == ShaderHandles(shaderModules_, handles, config.shaders)
          IN /\ Len(h1) + 1 <= MaxHandles
             /\ shaderModules_' = getShaderModule_(shaderModules_, handles, config.shaders)
             /\ handles' = Alloc(h1, "pipeline", msaaSampleCount_)
             /\ pipelines_' = Put(pipelines_, name, NextHandle(h1))
             /\ Outcome("createPipeline", "ok", name, NextHandle(h1), <<"pipelineCreated">>,
                        (IF Has(shaderModules_, config.shaders) THEN <<>>
                         ELSE <<"createShaderModule">>)
                        \o (IF config.bindGroupLayouts THEN <<"createPipelineLayout">>
                            ELSE <<>>)
                        \o <<"createRenderPipeline">>)
  /\ UNCHANGED <<backend, renderState, canvas, lifecycleVars, buffers_, textures_, computePipelines_,
                 samplers_, bindGroups_, bindGroupLayouts_, renderTargets_,
                 programs_, framebuffers_, VAOs_, trackerVars, frameVars>>

\* WGPURenderer.createComputePipeline(name, computeShader).
WGPU_createComputePipeline(name, code) ==
  /\ IsGPU
  /\ IF ~isInitialized
     THEN /\ Outcome("createComputePipeline", "NotInitialized", name, NoHandle, <<>>, <<>>)
          /\ UNCHANGED <<handles, computePipelines_, shaderModules_>>
     ELSE IF device_ = "null"
     THEN /\ Outcome("createComputePipeline", "TypeError", name, NoHandle, <<>>, <<>>)
          /\ UNCHANGED <<handles, computePipelines_, shaderModules_>>
     ELSE LET h1 == ShaderHandles(shaderModules_, handles, code)
          IN /\ Len(h1) + 1 <= MaxHandles
             /\ shaderModules_' = getShaderModule_(shaderModules_, handles, code)
             /\ handles' = Alloc(h1, "computePipeline", 1)
             /\ computePipelines_' = Put(computePipelines_, name, NextHandle(h1))
             /\ Outcome("createComputePipeline", "ok", name, NextHandle(h1),
                        <<"computePipelineCreated">>,
                        (IF Has(shaderModules_, code) THEN <<>> ELSE <<"createShaderModule">>)
                        \o <<"createComputePipeline">>)
  /\ UNCHANGED <<backend, renderState, canvas, lifecycleVars, buffers_, textures_, pipelines_,
                 samplers_, bindGroups_, bindGroupLayouts_, renderTargets_,
                 programs_, framebuffers_, VAOs_, trackerVars, frameVars>>

\* WGPURenderer.setPipeline(name): an unregistered name is ignored.
WGPU_setPipeline(name) ==
  /\ IsGPU
  /\ IF Has(pipelines_, name)
     THEN /\ currentPipeline_' = name
          /\ Outcome("setPipeline", "ok", name, NoHandle, <<"pipelineSet">>, <<>>)
     ELSE /\ Outcome("setPipeline", "ok", name, NoHandle, <<>>, <<>>)
          /\ UNCHANGED currentPipeline_
  /\ UNCHANGED <<backend, renderState, canvas, handles, lifecycleVars, registryVars, currentProgram_,
                 currentRenderTarget_, currentVAO_, msaaSampleCount_, msaaTexture_,
                 depthEnabled_, depthStencilTexture_, currentVertexBuffers_,
                 currentBindGroups_, glProgram, glVertexArray, frameVars>>

\* WGPURenderer.destroyPipeline(name): the event is emitted whether or not
\* the name was registered; currentPipeline_ is left as it is.
WGPU_destroyPipeline(name) ==
  /\ IsGPU
  /\ pipelines_' = Del(pipelines_, name)
  /\ Outcome("destroyPipeline", "ok", name, NoHandle, <<"pipelineDestroyed">>, <<>>)
  /\ UNCHANGED <<backend, renderState, canvas, handles, lifecycleVars, buffers_, textures_,
                 computePipelines_, samplers_, bindGroups_, bindGroupLayouts_,
                 renderTargets_, shaderModules_, programs_, framebuffers_, VAOs_,
                 trackerVars, frameVars>>

\* WGPURenderer.createBindGroup(config).  The layout is read off the current
\* pipeline object; a current name that is no longer registered gives
\* undefined, whose getBindGroupLayout throws.
WGPU_createBindGroup(name) ==
  /\ IsGPU
  /\ IF ~isInitialized
     THEN /\ Outcome("createBindGroup", "NotInitialized", name, NoHandle, <<>>, <<>>)
          /\ UNCHANGED <<handles, bindGroups_>>
     ELSE IF currentPipeline_ = Undef
     THEN /\ Outcome("createBindGroup", "NoPipelineSet", name, NoHandle, <<>>, <<>>)
          /\ UNCHANGED <<handles, bindGroups_>>
     ELSE IF device_ = "null" \/ ~Has(pipelines_, currentPipeline_)
     THEN /\ Outcome("createBindGroup", "TypeError", name, NoHandle, <<>>, <<>>)
          /\ UNCHANGED <<handles, bindGroups_>>
     ELSE /\ CanAlloc(1)
          /\ handles' = Alloc(handles, "bindGroup", 1)
          /\ bindGroups_' = Put(bindGroups_, name, NextHandle(handles))
          /\ Outcome("createBindGroup", "ok", name, NextHandle(handles),
                     <<"bindGroupCreated">>, <<"getBindGroupLayout", "createBindGroup">>)
  /\ UNCHANGED <<backend, renderState, canvas, lifecycleVars, buffers_, textures_, pipelines_,
                 computePipelines_, samplers_, bindGroupLayouts_, renderTargets_,
                 shaderModules_, programs_, framebuffers_, VAOs_, trackerVars, frameVars>>

\* WGPURenderer.createBindGroupLayout(name, entries): isInitialized is not
\* tested; the call goes straight to this.device_.
WGPU_createBindGroupLayout(name) ==
  /\ IsGPU
  /\ IF device_ = "null"
     THEN /\ Outcome("createBindGroupLayout", "TypeError", name, NoHandle, <<>>, <<>>)
          /\ UNCHANGED <<handles, bindGroupLayouts_>>
     ELSE /\ CanAlloc(1)
          /\ handles' = Alloc(handles, "bindGroupLayout", 1)
          /\ bindGroupLayouts_' = Put(bindGroupLayouts_, name, NextHandle(handles))
          /\ Outcome("createBindGroupLayout", "ok", name, NextHandle(handles), <<>>,
                     <<"createBindGroupLayout">>)
  /\ UNCHANGED <<backend, renderState, canvas, lifecycleVars, buffers_, textures_, pipelines_,
                 computePipelines_, samplers_, bindGroups_, renderTargets_,
                 shaderModules_, programs_, framebuffers_, VAOs_, trackerVars, frameVars>>

\* WGPURenderer.createSampler(config).
WGPU_createSampler(name) ==
  /\ IsGPU
  /\ IF ~isInitialized
     THEN /\ Outcome("createSampler", "NotInitialized", name, NoHandle, <<>>, <<>>)
          /\ UNCHANGED <<handles, samplers_>>
     ELSE IF device_ = "null"
     THEN /\ Outcome("createSampler", "TypeError", name, NoHandle, <<>>, <<>>)
          /\ UNCHANGED <<handles, samplers_>>
     ELSE /\ CanAlloc(1)
          /\ handles' = Alloc(handles, "sampler", 1)
          /\ samplers_' = Put(samplers_, name, NextHandle(handles))
          /\ Outcome("createSampler", "ok", name, NextHandle(handles), <<"samplerCreated">>,
                     <<"createSampler">>)
  /\ UNCHANGED <<backend, renderState, canvas, lifecycleVars, buffers_, textures_, pipelines_,
                 computePipelines_, bindGroups_, bindGroupLayouts_, renderTargets_,
                 shaderModules_, programs_, framebuffers_, VAOs_, trackerVars, frameVars>>

\* WGPURenderer.setBindGroup(bindGroupName, index): the bind group object is
\* stored at the index.
WGPU_setBindGroup(name, index) ==
  /\ IsGPU
  /\ IF ~Has(bindGroups_, name)
     THEN /\ Outcome("setBindGroup", "NotFound", name, NoHandle, <<>>, <<>>)
          /\ UNCHANGED currentBindGroups_
     ELSE /\ currentBindGroups_' = Put(currentBindGroups_, index, bindGroups_[name])
          /\ Outcome("setBindGroup", "ok", name, NoHandle, <<>>, <<>>)
  /\ UNCHANGED <<backend, renderState, canvas, handles, lifecycleVars, registryVars, currentPipeline_,
                 currentProgram_, currentRenderTarget_, currentVAO_, msaaSampleCount_,
                 msaaTexture_, depthEnabled_, depthStencilTexture_, currentVertexBuffers_,
                 glProgram, glVertexArray, frameVars>>

\* WGPURenderer.setVertexBuffer(slot, bufferName): the buffer object is
\* stored at the slot; an unregistered name is warned about.
WGPU_setVertexBuffer(slot, name) ==
  /\ IsGPU
  /\ IF ~Has(buffers_, name)
     THEN /\ Outcome("setVertexBuffer", "warn", name, NoHandle, <<>>, <<"console.warn">>)
          /\ UNCHANGED currentVertexBuffers_
     ELSE /\ currentVertexBuffers_' = Put(currentVertexBuffers_, slot, buffers_[name].buffer)
          /\ Outcome("setVertexBuffer", "ok", name, NoHandle, <<>>, <<>>)
  /\ UNCHANGED <<backend, renderState, canvas, handles, lifecycleVars, registryVars, currentPipeline_,
                 currentProgram_, currentRenderTarget_, currentVAO_, msaaSampleCount_,
                 msaaTexture_, depthEnabled_, depthStencilTexture_, currentBindGroups_,
                 glProgram, glVertexArray, frameVars>>

\* sampleCount 0 is an omitted one.
RenderTargetConfigs ==
  [name : Keys, width : Sizes, height : Sizes, format : {Undef}, sampleCount : {0, 4}]

\* WGPURenderer.createRenderTarget(config).
WGPU_createRenderTarget(config) ==
  /\ IsGPU
  /\ IF ~isInitialized
     THEN /\ Outcome("createRenderTarget", "NotInitialized", config, NoHandle, <<>>, <<>>)
          /\ UNCHANGED <<handles, renderTargets_>>
     ELSE IF device_ = "null"
     THEN /\ Outcome("createRenderTarget", "TypeError", config, NoHandle, <<>>, <<>>)
          /\ UNCHANGED <<handles, renderTargets_>>
     ELSE LET samples == IF config.sampleCount = 0 THEN 1 ELSE config.sampleCount
          IN /\ CanAlloc(1)
             /\ handles' = Alloc(handles, "renderTarget", samples)
             /\ renderTargets_' = Put(renderTargets_, config.name,
                  [texture |-> NextHandle(handles), width |-> config.width,
                   height |-> config.height,
                   format |-> IF config.format = Undef THEN DefaultFormat ELSE config.format,
                   usage |-> RenderTargetUsage, sampleCount |-> samples])
             /\ Outcome("createRenderTarget", "ok", config, NextHandle(handles),
                        <<"renderTargetCreated">>, <<"createTexture", "createView">>)
  /\ UNCHANGED <<backend, renderState, canvas, lifecycleVars, buffers_, textures_, pipelines_,
                 computePipelines_, samplers_, bindGroups_, bindGroupLayouts_,
                 shaderModules_, programs_, framebuffers_, VAOs_, trackerVars, frameVars>>

\* WGPURenderer.setRenderTarget(name); null selects the canvas.
WGPU_setRenderTarget(name) ==
  /\ IsGPU
  /\ IF name # Undef /\ ~Has(renderTargets_, name)
     THEN /\ Outcome("setRenderTarget", "NotFound", name, NoHandle, <<>>, <<>>)
          /\ UNCHANGED currentRenderTarget_
     ELSE /\ currentRenderTarget_' = name
          /\ Outcome("setRenderTarget", "ok", name, NoHandle, <<>>, <<>>)
  /\ UNCHANGED <<backend, renderState, canvas, handles, lifecycleVars, registryVars, currentPipeline_,
                 currentProgram_, currentVAO_, msaaSampleCount_, msaaTexture_,
                 depthEnabled_, depthStencilTexture_, currentVertexBuffers_,
                 currentBindGroups_, glProgram, glVertexArray, frameVars>>

\* ------------------------------------------------ attachments and size
\* The page resizes the canvas element (the demos do so before setSize).
CanvasResize(width, height) ==
  /\ canvas # [width |-> width, height |-> height]
  /\ canvas' = [width |-> width, height |-> height]
  /\ Outcome("canvasResize", "ok", Undef, NoHandle, <<>>, <<>>)
  /\ UNCHANGED <<backend, renderState, handles, lifecycleVars, registryVars, trackerVars, frameVars>>

\* createMSAATexture() without the destroy of the existing target.
LeakyMSAAHandles(h) == Alloc(h, "msaaTexture", msaaSampleCount_')

\* The handles after WGPURenderer.createMSAATexture() on handles h: an
\* existing target is destroyed, a new one is allocated.
MSAAHandles(h) ==
  Alloc(IF msaaTexture_ # NullTexture THEN Release(h, msaaTexture_.texture) ELSE h,
        "msaaTexture", msaaSampleCount_')
\* The metadata createMSAATexture() stores for the texture with handle id.
MSAAMetadata(id) ==
  [texture |-> id, width |-> canvas.width, height |-> canvas.height,
   sampleCount |-> msaaSampleCount_']

\* WGPURenderer.setMSAA(enabled), with createMSAATexture() inlined.
WGPU_setMSAA(enabled) ==
  /\ IsGPU
  /\ IF ~isInitialized
     THEN /\ Outcome("setMSAA", "warn", enabled, NoHandle, <<>>, <<"console.warn">>)
          /\ UNCHANGED <<handles, msaaSampleCount_, msaaTexture_>>
     ELSE /\ msaaSampleCount_' = IF enabled THEN 4 ELSE 1
          /\ IF enabled
             THEN IF device_ = "null"
                  THEN /\ handles' = IF msaaTexture_ # NullTexture
                                     THEN Release(handles, msaaTexture_.texture) ELSE handles
                       /\ UNCHANGED msaaTexture_
                       /\ Outcome("setMSAA", "TypeError", enabled, NoHandle, <<>>, <<>>)
                  ELSE /\ CanAlloc(1)
                       /\ handles' = MSAAHandles(handles)
                       /\ msaaTexture_' = MSAAMetadata(NextHandle(handles))
                       /\ Outcome("setMSAA", "ok", enabled, NextHandle(handles),
                                  <<"msaaChanged">>,
                                  (IF msaaTexture_ # NullTexture THEN <<"destroy">> ELSE <<>>)
                                  \o <<"createTexture", "createView">>)
             ELSE /\ handles' = IF msaaTexture_ # NullTexture
                                THEN Release(handles, msaaTexture_.texture) ELSE handles
                  /\ msaaTexture_' = NullTexture
                  /\ Outcome("setMSAA", "ok", enabled, NoHandle, <<"msaaChanged">>,
                             IF msaaTexture_ # NullTexture THEN <<"destroy">> ELSE <<>>)
  /\ UNCHANGED <<backend, renderState, canvas, lifecycleVars, registryVars, currentPipeline_,
                 currentProgram_, currentRenderTarget_, currentVAO_, depthEnabled_,
                 depthStencilTexture_, currentVertexBuffers_, currentBindGroups_,
                 glProgram, glVertexArray, frameVars>>

\* The metadata createDepthStencilTexture() stores (it keeps no sample
\* count; the native texture has the renderer's current one).
DepthMetadata(id) ==
  [texture |-> id, width |-> canvas.width, height |-> canvas.height, sampleCount |-> 0]

\* setDepthState without the test of depthStencilTexture_: every enable
\* allocates.
setDepthStateEager(enabled) ==
  /\ IsGPU
  /\ depthEnabled_' = enabled
  /\ IF enabled
     THEN IF device_ = "null"
          THEN /\ Outcome("setDepthState", "TypeError", enabled, NoHandle, <<>>, <<>>)
               /\ UNCHANGED <<handles, depthStencilTexture_>>
          ELSE /\ CanAlloc(1)
               /\ handles' = Alloc(handles, "depthTexture", msaaSampleCount_)
               /\ depthStencilTexture_' = DepthMetadata(NextHandle(handles))
               /\ Outcome("setDepthState", "ok", enabled, NextHandle(handles), <<>>,
                          <<"createTexture", "createView">>)
     ELSE /\ Outcome("setDepthState", "ok", enabled, NoHandle, <<>>, <<>>)
          /\ UNCHANGED <<handles, depthStencilTexture_>>
  /\ UNCHANGED <<backend, renderState, canvas, lifecycleVars, registryVars, currentPipeline_,
                 currentProgram_, currentRenderTarget_, currentVAO_, msaaSampleCount_,
                 msaaTexture_, currentVertexBuffers_, currentBindGroups_,
                 glProgram, glVertexArray, frameVars>>

\* WGPURenderer.setDepthState(enabled, config), with
\* createDepthStencilTexture() inlined.  isInitialized is not tested.
WGPU_setDepthState(enabled) ==
  /\ IsGPU
  /\ depthEnabled_' = enabled
  /\ IF enabled /\ depthStencilTexture_ = NullTexture
     THEN IF device_ = "null"
          THEN /\ Outcome("setDepthState", "TypeError", enabled, NoHandle, <<>>, <<>>)
               /\ UNCHANGED <<handles, depthStencilTexture_>>
          ELSE /\ CanAlloc(1)
               /\ handles' = Alloc(handles, "depthTexture", msaaSampleCount_)
               /\ depthStencilTexture_' = DepthMetadata(NextHandle(handles))
               /\ Outcome("setDepthState", "ok", enabled, NextHandle(handles), <<>>,
                          <<"createTexture", "createView">>)
     ELSE /\ Outcome("setDepthState", "ok", enabled, NoHandle, <<>>, <<>>)
          /\ UNCHANGED <<handles, depthStencilTexture_>>
  /\ UNCHANGED <<backend, renderState, canvas, lifecycleVars, registryVars, currentPipeline_,
                 currentProgram_, currentRenderTarget_, currentVAO_, msaaSampleCount_,
                 msaaTexture_, currentVertexBuffers_, currentBindGroups_,
                 glProgram, glVertexArray, frameVars>>

\* WGPURenderer.setSize(width, height): the context is reconfigured, the
\* MSAA target is recreated when MSAA is on, the depth texture is destroyed
\* and recreated when there is one; both take the canvas's dimensions.
WGPU_setSize ==
  /\ IsGPU
  /\ IF ~isInitialized
     THEN /\ Outcome("setSize", "warn", Undef, NoHandle, <<>>, <<"console.warn">>)
          /\ UNCHANGED <<handles, msaaTexture_, depthStencilTexture_>>
     ELSE IF device_ = "null"
     THEN /\ Outcome("setSize", "TypeError", Undef, NoHandle, <<>>, <<>>)
          /\ UNCHANGED <<handles, msaaTexture_, depthStencilTexture_>>
     ELSE LET msaa == msaaSampleCount_ > 1
              depth == depthStencilTexture_ # NullTexture
              h0 == handles
              h1 == IF msaa
                    THEN Alloc(IF msaaTexture_ # NullTexture
                               THEN Release(h0, msaaTexture_.texture) ELSE h0,
                               "msaaTexture", msaaSampleCount_)
                    ELSE h0
              h2 == IF depth
                    THEN Alloc(Release(h1, depthStencilTexture_.texture),
                               "depthTexture", msaaSampleCount_)
                    ELSE h1
          IN /\ Len(h2) <= MaxHandles
             /\ handles' = h2
             /\ msaaTexture_' = IF msaa
                                THEN [texture |-> NextHandle(h0), width |-> canvas.width,
                                      height |-> canvas.height,
                                      sampleCount |-> msaaSampleCount_]
                                ELSE msaaTexture_
             /\ depthStencilTexture_' = IF depth THEN DepthMetadata(NextHandle(h1))
                                         ELSE depthStencilTexture_
             /\ Outcome("setSize", "ok", Undef, NoHandle, <<"resize">>,
                        <<"configure">>
                        \o (IF msaa /\ msaaTexture_ # NullTexture THEN <<"destroy">> ELSE <<>>)
                        \o (IF msaa THEN <<"createTexture", "createView">> ELSE <<>>)
                        \o (IF depth THEN <<"destroy", "createTexture", "createView">>
                            ELSE <<>>))
  /\ UNCHANGED <<backend, renderState, canvas, lifecycleVars, registryVars, currentPipeline_,
                 currentProgram_, currentRenderTarget_, currentVAO_, msaaSampleCount_,
                 depthEnabled_, currentVertexBuffers_, currentBindGroups_,
                 glProgram, glVertexArray, frameVars>>

\* ---------------------------------------------------------------- render
Slots == {0, 1}
NoBindings == [x \in {} |-> Undef]
\* A draw call: names bound at slots, the index buffer's name, the counts
\* (0: not given).
DrawCall(vbs, bgs, ib, ic, vc) ==
  [vertexBuffers |-> vbs, bindGroups |-> bgs, indexBuffer |-> ib, indexCount |-> ic,
   vertexCount |-> vc]
EmptyDrawCall == DrawCall(NoBindings, NoBindings, Undef, 0, 0)

\* WGPURenderer.beginFrame().
beginFrame(count) == count + 1

\* The color attachment with no resolve target in any case.
UnresolvedAttachment ==
  [source |-> IF currentRenderTarget_ # Undef THEN "renderTarget"
              ELSE IF msaaSampleCount_ > 1 THEN "msaa" ELSE "canvas",
   texture |-> IF currentRenderTarget_ # Undef
               THEN renderTargets_[currentRenderTarget_].texture
               ELSE IF msaaSampleCount_ > 1 THEN msaaTexture_.texture ELSE NoHandle,
   resolveTarget |-> Undef,
   loadOp |-> "clear",
   storeOp |-> IF msaaSampleCount_ > 1 THEN "discard" ELSE "store"]

\* The color attachment render() resolves.
ColorAttachment ==
  [source |-> IF currentRenderTarget_ # Undef THEN "renderTarget"
              ELSE IF msaaSampleCount_ > 1 THEN "msaa" ELSE "canvas",
   texture |-> IF currentRenderTarget_ # Undef
               THEN renderTargets_[currentRenderTarget_].texture
               ELSE IF msaaSampleCount_ > 1 THEN msaaTexture_.texture ELSE NoHandle,
   resolveTarget |-> IF msaaSampleCount_ > 1 /\ currentRenderTarget_ = Undef
                     THEN "canvas" ELSE Undef,
   loadOp |-> "clear",
   storeOp |-> IF msaaSampleCount_ > 1 THEN "discard" ELSE "store"]

\* The depth/stencil attachment render() adds, if any.
DepthAttachment ==
  IF depthEnabled_ /\ depthStencilTexture_ # NullTexture
  THEN [attached |-> TRUE, texture |-> depthStencilTexture_.texture,
        depthClearValue |-> 1, depthLoadOp |-> "clear", depthStoreOp |-> "store",
        stencilClearValue |-> 0, stencilLoadOp |-> "clear", stencilStoreOp |-> "store"]
  ELSE [attached |-> FALSE]

\* The bindings of a draw call that name a registered resource, as handles.
BoundBuffers(bindings) ==
  [slot \in {x \in DOMAIN bindings : Has(buffers_, bindings[x])}
     |-> buffers_[bindings[slot]].buffer]
BoundGroups(bindings) ==
  [slot \in {x \in DOMAIN bindings : Has(bindGroups_, bindings[x])}
     |-> bindGroups_[bindings[slot]]]

\* The draw render() issues.
DrawIssued(drawCall) ==
  IF drawCall.indexBuffer # Undef /\ Has(buffers_, drawCall.indexBuffer)
  THEN [kind |-> "drawIndexed", count |-> drawCall.indexCount,
        indexFormat |-> IF buffers_[drawCall.indexBuffer].indexFormat = Undef
                        THEN "uint16" ELSE buffers_[drawCall.indexBuffer].indexFormat]
  ELSE IF drawCall.vertexCount # 0
  THEN [kind |-> "draw", count |-> drawCall.vertexCount, indexFormat |-> Undef]
  ELSE [kind |-> "none", count |-> 0, indexFormat |-> Undef]

\* The view expression of the color attachment throws: the current render
\* target is not registered, MSAA is on with no MSAA texture, or the canvas
\* context is null.
ColorViewThrows ==
  IF currentRenderTarget_ # Undef THEN ~Has(renderTargets_, currentRenderTarget_)
  ELSE IF msaaSampleCount_ > 1 THEN msaaTexture_ = NullTexture \/ context = "null"
  ELSE context = "null"

\* WGPURenderer.render(drawCall).
WGPU_render(drawCall) ==
  /\ IsGPU
  /\ frameCount_ < MaxFrames
  /\ frameCount_' = beginFrame(frameCount_)
  /\ IF ~isInitialized
     THEN /\ Outcome("render", "warn", drawCall, NoHandle, <<>>, <<"console.warn">>)
          /\ UNCHANGED <<frameRenderedCount, lastPass>>
     ELSE IF currentPipeline_ = Undef
     THEN /\ Outcome("render", "NoPipelineSet", drawCall, NoHandle, <<>>, <<>>)
          /\ UNCHANGED <<frameRenderedCount, lastPass>>
     ELSE IF device_ = "null"
     THEN /\ Outcome("render", "TypeError", drawCall, NoHandle, <<>>, <<>>)
          /\ UNCHANGED <<frameRenderedCount, lastPass>>
     ELSE IF ColorViewThrows
     THEN /\ Outcome("render", "TypeError", drawCall, NoHandle, <<>>,
                     <<"createCommandEncoder">>)
          /\ UNCHANGED <<frameRenderedCount, lastPass>>
     ELSE IF ~Has(pipelines_, currentPipeline_)
     THEN /\ lastPass' = [begun |-> TRUE, submitted |-> FALSE, color |-> ColorAttachment,
                          depth |-> DepthAttachment, pipeline |-> NoHandle,
                          vertexBuffers |-> Empty, bindGroups |-> Empty,
                          draw |-> [kind |-> "none", count |-> 0, indexFormat |-> Undef]]
          /\ Outcome("render", "TypeError", drawCall, NoHandle, <<>>,
                     <<"createCommandEncoder", "beginRenderPass">>)
          /\ UNCHANGED frameRenderedCount
     ELSE /\ lastPass' = [begun |-> TRUE, submitted |-> TRUE, color |-> ColorAttachment,
                          depth |-> DepthAttachment,
                          pipeline |-> pipelines_[currentPipeline_],
                          vertexBuffers |-> BoundBuffers(drawCall.vertexBuffers),
                          bindGroups |-> BoundGroups(drawCall.bindGroups),
                          draw |-> DrawIssued(drawCall)]
          /\ frameRenderedCount' = frameRenderedCount + 1
          /\ Outcome("render", "ok", drawCall, NoHandle, <<"frameRendered">>,
                     <<"createCommandEncoder", "beginRenderPass", "setPipeline">>
                     \o (IF DrawIssued(drawCall).kind = "none" THEN <<>>
                         ELSE <<DrawIssued(drawCall).kind>>)
                     \o <<"end", "submit">>)
  /\ UNCHANGED <<backend, renderState, canvas, handles, lifecycleVars, registryVars, trackerVars>>

\* What dispatchCompute is given: the pipeline's name and the bind-group
\* names by index (workgroup counts do not matter here).
DispatchArgs ==
  {[pipelineName |-> n, bindGroups |-> bgs] :
     n \in Names, bgs \in {NoBindings, [x \in {0} |-> "a"]}}

\* dispatchCompute that records the pass and leaves the submit to later.
dispatchComputeDeferred(arg) ==
  /\ IsGPU
  /\ IF ~Has(computePipelines_, arg.pipelineName)
     THEN Outcome("dispatchCompute", "NotFound", arg, NoHandle, <<>>, <<>>)
     ELSE IF device_ = "null"
     THEN Outcome("dispatchCompute", "TypeError", arg, NoHandle, <<>>, <<>>)
     ELSE Outcome("dispatchCompute", "ok", arg, computePipelines_[arg.pipelineName],
                  <<"computeDispatched">>,
                  <<"createCommandEncoder", "beginComputePass", "setPipeline">>
                  \o Repeat("setBindGroup",
                             Cardinality({x \in DOMAIN arg.bindGroups :
                                            Has(bindGroups_, arg.bindGroups[x])}))
                  \o <<"dispatchWorkgroups", "end">>)
  /\ UNCHANGED <<backend, renderState, canvas, handles, lifecycleVars, registryVars, trackerVars,
                 frameVars>>

\* WGPURenderer.dispatchCompute(pipelineName, config).  isInitialized is not
\* tested.  lastRet is the pipeline dispatched.
WGPU_dispatchCompute(arg) ==
  /\ IsGPU
  /\ IF ~Has(computePipelines_, arg.pipelineName)
     THEN Outcome("dispatchCompute", "NotFound", arg, NoHandle, <<>>, <<>>)
     ELSE IF device_ = "null"
     THEN Outcome("dispatchCompute", "TypeError", arg, NoHandle, <<>>, <<>>)
     ELSE Outcome("dispatchCompute", "ok", arg, computePipelines_[arg.pipelineName],
                  <<"computeDispatched">>,
                  <<"createCommandEncoder", "beginComputePass", "setPipeline">>
                  \o Repeat("setBindGroup",
                             Cardinality({x \in DOMAIN arg.bindGroups :
                                            Has(bindGroups_, arg.bindGroups[x])}))
                  \o <<"dispatchWorkgroups", "end", "submit">>)
  /\ UNCHANGED <<backend, renderState, canvas, handles, lifecycleVars, registryVars, trackerVars,
                 frameVars>>

\* WGLRenderer.render(), inherited by WGL2Renderer: the frame is counted and
\* announced; nothing is tested and nothing is drawn.
WGL_render ==
  /\ IsGL
  /\ frameCount_ < MaxFrames
  /\ frameCount_' = frameCount_ + 1
  /\ frameRenderedCount' = frameRenderedCount + 1
  /\ Outcome("render", "ok", Undef, NoHandle, <<"frameRendered">>, <<>>)
  /\ UNCHANGED <<backend, renderState, canvas, handles, lifecycleVars, registryVars, trackerVars, lastPass>>

\* ------------------------------------------------- immediate-mode objects
\* What the GL compiler and linker answer for a createProgram call.
BuildResults == {"ok", "compileFailed", "linkFailed"}

\* WGLRenderer.createProgram(name, shaders), inherited by WGL2Renderer.  A
\* program and its two shaders are one handle.  A failed link leaves the
\* program object allocated and unregistered.
WGL_createProgram(name, build) ==
  /\ IsGL
  /\ IF ~isInitialized
     THEN /\ Outcome("createProgram", "NotInitialized", name, NoHandle, <<>>, <<>>)
          /\ UNCHANGED <<handles, programs_>>
     ELSE IF build = "compileFailed"
     THEN /\ Outcome("createProgram", "CompileOrLinkFailed", name, NoHandle, <<"error">>,
                     <<"createShader", "compileShader", "deleteShader">>)
          /\ UNCHANGED <<handles, programs_>>
     ELSE IF build = "linkFailed"
     THEN /\ CanAlloc(1)
          /\ handles' = Alloc(handles, "program", 1)
          /\ Outcome("createProgram", "CompileOrLinkFailed", name, NoHandle, <<"error">>,
                     <<"createShader", "compileShader", "createShader", "compileShader",
                       "createProgram", "linkProgram">>)
          /\ UNCHANGED programs_
     ELSE /\ CanAlloc(1)
          /\ handles' = Alloc(handles, "program", 1)
          /\ programs_' = Put(programs_, name, NextHandle(handles))
          /\ Outcome("createProgram", "ok", name, NextHandle(handles), <<"programCreated">>,
                     <<"createShader", "compileShader", "createShader", "compileShader",
                       "createProgram", "linkProgram">>)
  /\ UNCHANGED <<backend, renderState, canvas, lifecycleVars, buffers_, textures_, pipelines_,
                 computePipelines_, samplers_, bindGroups_, bindGroupLayouts_,
                 renderTargets_, shaderModules_, framebuffers_, VAOs_, trackerVars,
                 frameVars>>

\* useProgram without the test of currentProgram_: every call binds.
useProgramUnguarded(name) ==
  /\ IsGL
  /\ IF ~Has(programs_, name)
     THEN /\ Outcome("useProgram", "NotFound", name, NoHandle, <<>>, <<>>)
          /\ UNCHANGED <<currentProgram_, glProgram>>
     ELSE IF context = "null"
     THEN /\ Outcome("useProgram", "TypeError", name, NoHandle, <<>>, <<>>)
          /\ UNCHANGED <<currentProgram_, glProgram>>
     ELSE /\ glProgram' = programs_[name]
          /\ currentProgram_' = name
          /\ Outcome("useProgram", "ok", name, NoHandle, <<"programSet">>, <<"useProgram">>)
  /\ UNCHANGED <<backend, renderState, canvas, handles, lifecycleVars, registryVars, currentPipeline_,
                 currentRenderTarget_, currentVAO_, msaaSampleCount_, msaaTexture_,
                 depthEnabled_, depthStencilTexture_, currentVertexBuffers_,
                 currentBindGroups_, glVertexArray, frameVars>>

\* WGLRenderer.useProgram(name), inherited by WGL2Renderer.
WGL_useProgram(name) ==
  /\ IsGL
  /\ IF ~Has(programs_, name)
     THEN /\ Outcome("useProgram", "NotFound", name, NoHandle, <<>>, <<>>)
          /\ UNCHANGED <<currentProgram_, glProgram>>
     ELSE IF currentProgram_ = name
     THEN /\ Outcome("useProgram", "ok", name, NoHandle, <<>>, <<>>)
          /\ UNCHANGED <<currentProgram_, glProgram>>
     ELSE IF context = "null"
     THEN /\ Outcome("useProgram", "TypeError", name, NoHandle, <<>>, <<>>)
          /\ UNCHANGED <<currentProgram_, glProgram>>
     ELSE /\ glProgram' = programs_[name]
          /\ currentProgram_' = name
          /\ Outcome("useProgram", "ok", name, NoHandle, <<"programSet">>, <<"useProgram">>)
  /\ UNCHANGED <<backend, renderState, canvas, handles, lifecycleVars, registryVars, currentPipeline_,
                 currentRenderTarget_, currentVAO_, msaaSampleCount_, msaaTexture_,
                 depthEnabled_, depthStencilTexture_, currentVertexBuffers_,
                 currentBindGroups_, glVertexArray, frameVars>>

\* createFramebuffer without the test of checkFramebufferStatus: an
\* incomplete framebuffer is registered and announced like a complete one.
createFramebufferUnchecked(name, complete) ==
  /\ IsGL
  /\ IF context = "null"
     THEN /\ Outcome("createFramebuffer", "TypeError", name, NoHandle, <<>>, <<>>)
          /\ UNCHANGED <<handles, framebuffers_>>
     ELSE /\ CanAlloc(1)
          /\ handles' = Alloc(handles, "framebuffer", 1)
          /\ framebuffers_' = Put(framebuffers_, name, NextHandle(handles))
          /\ Outcome("createFramebuffer", IF complete THEN "ok" ELSE "FramebufferIncomplete",
                     name, NextHandle(handles), <<"framebufferCreated">>,
                     <<"createFramebuffer", "bindFramebuffer", "checkFramebufferStatus",
                       "bindFramebuffer">>)
  /\ UNCHANGED <<backend, renderState, canvas, lifecycleVars, buffers_, textures_, pipelines_,
                 computePipelines_, samplers_, bindGroups_, bindGroupLayouts_,
                 renderTargets_, shaderModules_, programs_, VAOs_, trackerVars, frameVars>>

\* WGLRenderer.createFramebuffer(name, attachments), inherited by
\* WGL2Renderer.  isInitialized is not tested.  `complete` is the answer of
\* checkFramebufferStatus; an incomplete framebuffer is left allocated.
WGL_createFramebuffer(name, complete) ==
  /\ IsGL
  /\ IF context = "null"
     THEN /\ Outcome("createFramebuffer", "TypeError", name, NoHandle, <<>>, <<>>)
          /\ UNCHANGED <<handles, framebuffers_>>
     ELSE IF ~complete
     THEN /\ CanAlloc(1)
          /\ handles' = Alloc(handles, "framebuffer", 1)
          /\ Outcome("createFramebuffer", "FramebufferIncomplete", name, NoHandle, <<>>,
                     <<"createFramebuffer", "bindFramebuffer", "checkFramebufferStatus",
                       "bindFramebuffer">>)
          /\ UNCHANGED framebuffers_
     ELSE /\ CanAlloc(1)
          /\ handles' = Alloc(handles, "framebuffer", 1)
          /\ framebuffers_' = Put(framebuffers_, name, NextHandle(handles))
          /\ Outcome("createFramebuffer", "ok", name, NextHandle(handles),
                     <<"framebufferCreated">>,
                     <<"createFramebuffer", "bindFramebuffer", "checkFramebufferStatus",
                       "bindFramebuffer">>)
  /\ UNCHANGED <<backend, renderState, canvas, lifecycleVars, buffers_, textures_, pipelines_,
                 computePipelines_, samplers_, bindGroups_, bindGroupLayouts_,
                 renderTargets_, shaderModules_, programs_, VAOs_, trackerVars, frameVars>>

\* WGL2Renderer.createVAO(name).
WGL2_createVAO(name) ==
  /\ backend = "wgl2"
  /\ IF ~isInitialized
     THEN /\ Outcome("createVAO", "NotInitialized", name, NoHandle, <<>>, <<>>)
          /\ UNCHANGED <<handles, VAOs_>>
     ELSE /\ CanAlloc(1)
          /\ handles' = Alloc(handles, "vertexArray", 1)
          /\ VAOs_' = Put(VAOs_, name, NextHandle(handles))
          /\ Outcome("createVAO", "ok", name, NextHandle(handles), <<>>,
                     <<"createVertexArray">>)
  /\ UNCHANGED <<backend, renderState, canvas, lifecycleVars, buffers_, textures_, pipelines_,
                 computePipelines_, samplers_, bindGroups_, bindGroupLayouts_,
                 renderTargets_, shaderModules_, programs_, framebuffers_, trackerVars,
                 frameVars>>

\* WGL2Renderer.bindVAO(name); null unbinds.
WGL2_bindVAO(name) ==
  /\ backend = "wgl2"
  /\ IF name # Undef /\ ~Has(VAOs_, name)
     THEN /\ Outcome("bindVAO", "NotFound", name, NoHandle, <<>>, <<>>)
          /\ UNCHANGED <<currentVAO_, glVertexArray>>
     ELSE IF context = "null"
     THEN /\ Outcome("bindVAO", "TypeError", name, NoHandle, <<>>, <<>>)
          /\ UNCHANGED <<currentVAO_, glVertexArray>>
     ELSE /\ glVertexArray' = IF name # Undef THEN VAOs_[name] ELSE NoHandle
          /\ currentVAO_' = name
          /\ Outcome("bindVAO", "ok", name, NoHandle, <<>>, <<"bindVertexArray">>)
  /\ UNCHANGED <<backend, renderState, canvas, handles, lifecycleVars, registryVars, currentPipeline_,
                 currentProgram_, currentRenderTarget_, msaaSampleCount_, msaaTexture_,
                 depthEnabled_, depthStencilTexture_, currentVertexBuffers_,
                 currentBindGroups_, glProgram, frameVars>>

\* What draw() of the immediate-mode backends is given: the names of the
\* buffers that have attributes, the index buffer's name, the count (0: not
\* given) and the element type.
GLDrawCalls ==
  [attributes : SUBSET Names, indices : Keys, count : {0, 3}, type : {Undef, "UNSIGNED_INT"}]

\* The draw WGLRenderer.draw() issues: the element type is the draw call's,
\* UNSIGNED_SHORT when it gives none.
GLDrawIssued(drawCall) ==
  IF drawCall.indices # Undef
  THEN IF Has(buffers_, drawCall.indices)
       THEN [kind |-> "drawElements", count |-> drawCall.count,
             indexFormat |-> IF drawCall.type = Undef THEN "UNSIGNED_SHORT" ELSE drawCall.type]
       ELSE [kind |-> "none", count |-> 0, indexFormat |-> Undef]
  ELSE IF drawCall.count # 0
  THEN [kind |-> "drawArrays", count |-> drawCall.count, indexFormat |-> Undef]
  ELSE [kind |-> "none", count |-> 0, indexFormat |-> Undef]

\* WGLRenderer.draw(drawCall), and WGL2Renderer.draw(drawCall) around it:
\* with a current VAO the VAO is bound, super.draw() runs, and the binding is
\* cleared after super.draw() has returned; nothing clears it when
\* super.draw() throws.  lastRet is the draw issued.
WGL_draw(drawCall) ==
  /\ IsGL
  /\ LET vao == backend = "wgl2" /\ currentVAO_ # Undef
         bound == IF Has(VAOs_, currentVAO_) THEN VAOs_[currentVAO_] ELSE NoHandle
         attrs == {n \in drawCall.attributes : Has(buffers_, n)}
         issued == GLDrawIssued(drawCall)
         before == IF vao THEN <<"bindVertexArray">> ELSE <<>>
     IN IF vao /\ context = "null"
        THEN /\ Outcome("draw", "TypeError", drawCall, NoHandle, <<>>, <<>>)
             /\ UNCHANGED glVertexArray
        ELSE IF ~isInitialized
        THEN /\ Outcome("draw", "warn", drawCall, NoHandle, <<>>,
                        before \o <<"console.warn">> \o before)
             /\ glVertexArray' = IF vao THEN NoHandle ELSE glVertexArray
        ELSE IF currentProgram_ = Undef
        THEN /\ Outcome("draw", "NoProgramSet", drawCall, NoHandle, <<>>, before)
             /\ glVertexArray' = IF vao THEN bound ELSE glVertexArray
        ELSE IF context = "null"
        THEN /\ Outcome("draw", "TypeError", drawCall, NoHandle, <<>>, before)
             /\ glVertexArray' = IF vao THEN bound ELSE glVertexArray
        ELSE /\ Outcome("draw", "ok", drawCall,
                        issued, <<"draw">>,
                        before
                        \o Repeat("bindBuffer", Cardinality(attrs))
                        \o (IF issued.kind = "drawElements"
                            THEN <<"bindBuffer", "drawElements">>
                            ELSE IF issued.kind = "drawArrays" THEN <<"drawArrays">>
                            ELSE <<>>)
                        \o before)
             /\ glVertexArray' = IF vao THEN NoHandle ELSE glVertexArray
  /\ UNCHANGED <<backend, renderState, canvas, handles, lifecycleVars, registryVars, currentPipeline_,
                 currentProgram_, currentRenderTarget_, currentVAO_, msaaSampleCount_,
                 msaaTexture_, depthEnabled_, depthStencilTexture_, currentVertexBuffers_,
                 currentBindGroups_, glProgram, frameVars>>

\* ---------------------------------------------------------------- events
\* on(event, callback), the same in WGLRenderer and WGPURenderer: the event
\* gets a Set if it has none; a Set holds a callback once.
on(event, callback) ==
  /\ eventListeners_' =
       LET cbs == ListenersOf(eventListeners_, event)
       IN Put(eventListeners_, event,
              IF \E i \in DOMAIN cbs : cbs[i] = callback THEN cbs ELSE Append(cbs, callback))
  /\ lastOp' = "on" /\ lastResult' = "ok" /\ lastArg' = <<event, callback>>
  /\ lastRet' = NoHandle /\ events' = <<>> /\ native' = <<>>
  /\ dispatched' = NoDispatch
  /\ UNCHANGED <<backend, renderState, canvas, handles, lifecycleVars, registryVars, trackerVars, frameVars>>

\* off(event, callback): the callback leaves the event's Set, if there is one.
off(event, callback) ==
  /\ eventListeners_' =
       IF Has(eventListeners_, event)
       THEN [eventListeners_ EXCEPT
               ![event] = SelectSeq(eventListeners_[event], LAMBDA cb : cb # callback)]
       ELSE eventListeners_
  /\ lastOp' = "off" /\ lastResult' = "ok" /\ lastArg' = <<event, callback>>
  /\ lastRet' = NoHandle /\ events' = <<>> /\ native' = <<>>
  /\ dispatched' = NoDispatch
  /\ UNCHANGED <<backend, renderState, canvas, handles, lifecycleVars, registryVars, trackerVars, frameVars>>

\* ------------------------------------------------------- support probe
\* What the platform answers a probe: the object each getContext() request
\* on a fresh canvas returns, and which WebGPU globals exist.
ContextObjects == {"null", "WebGLRenderingContext", "WebGL2RenderingContext"}
ProbeEnvs ==
  IF IsGPU
  THEN [navigator : BOOLEAN, gpu : {"undefined", "null", "object"},
        GPUAdapter : BOOLEAN, GPUDevice : BOOLEAN]
  ELSE [webgl : ContextObjects, experimental : ContextObjects, webgl2 : ContextObjects]

\* The context object the probe of a WebGL backend ends up with.
ProbeContext(env) ==
  IF backend = "wgl2" THEN env.webgl2
  ELSE IF env.webgl # "null" THEN env.webgl ELSE env.experimental

\* The value of the static isSupported() of the renderer's class.
Supported(env) ==
  IF IsGPU
  THEN env.navigator /\ env.gpu # "undefined" /\ env.GPUAdapter /\ env.GPUDevice
  ELSE /\ ProbeContext(env) # "null"
       /\ ProbeContext(env) = (IF backend = "wgl2" THEN "WebGL2RenderingContext"
                                ELSE "WebGLRenderingContext")

\* The static isSupported() of the renderer's class, called by the page: the
\* WebGL classes ask a throwaway canvas for a context, the WebGPU class
\* looks at globals and asks for nothing.  No instance is touched.  lastRet
\* is the value returned.
isSupported(env) ==
  /\ Outcome("isSupported", "ok", env, Supported(env), <<>>,
             IF IsGPU THEN <<>>
             ELSE IF backend = "wgl" /\ env.webgl = "null"
             THEN <<"createElement", "getContext", "getContext">>
             ELSE <<"createElement", "getContext">>)
  /\ UNCHANGED <<backend, renderState, canvas, handles, lifecycleVars, registryVars, trackerVars,
                 frameVars>>

\* ---------------------------------------------------------------- lookup
\* What a metadata getter returns for an unregistered name.
Null == [found |-> FALSE]
\* getBuffer(name), of WGLRenderer and of WGPURenderer.
getBuffer(name) == IF Has(buffers_, name) THEN buffers_[name].buffer ELSE NoHandle
\* WGPURenderer.getBufferMetadata(name).
getBufferMetadata(name) == IF Has(buffers_, name) THEN buffers_[name] ELSE Null
\* getTexture(name), of WGLRenderer and of WGPURenderer.
getTexture(name) == IF Has(textures_, name) THEN textures_[name].texture ELSE NoHandle
\* WGPURenderer.getTextureMetadata(name).
getTextureMetadata(name) == IF Has(textures_, name) THEN textures_[name] ELSE Null
\* WGPURenderer.getPipeline(name).
getPipeline(name) == IF Has(pipelines_, name) THEN pipelines_[name] ELSE NoHandle
\* WGPURenderer.getBindGroup(name).
getBindGroup(name) == IF Has(bindGroups_, name) THEN bindGroups_[name] ELSE NoHandle
\* WGLRenderer.getProgram(name).
getProgram(name) == IF Has(programs_, name) THEN programs_[name] ELSE NoHandle

\* --------------------------------------------------------- specifications
\* The lifecycle of either kind of backend.
Lifecycle ==
  \/ \E supported \in BOOLEAN, ctxOk \in BOOLEAN : WGL_initialize(supported, ctxOk)
  \/ \E supported \in BOOLEAN, ctxOk \in BOOLEAN : WGL2_initialize(supported, ctxOk)
  \/ \E supported \in BOOLEAN : WGPU_initialize(supported)
  \/ \E adapterOk \in BOOLEAN : WGPU_initialize_adapter(adapterOk)
  \/ \E deviceOk \in BOOLEAN, ctxOk \in BOOLEAN : WGPU_initialize_device(deviceOk, ctxOk)
  \/ WGPU_destroy
  \/ WGL_destroy

\* The lifecycle in an environment that grants every request: the backend is
\* supported and the adapter, the device and the context are obtained.
Granted ==
  \/ WGL_initialize(TRUE, TRUE)
  \/ WGL2_initialize(TRUE, TRUE)
  \/ WGPU_initialize(TRUE)
  \/ WGPU_initialize_adapter(TRUE)
  \/ WGPU_initialize_device(TRUE, TRUE)
  \/ WGPU_destroy
  \/ WGL_destroy

\* Draw calls of the frame specification: none, and one non-indexed draw.
FrameDrawCalls == {EmptyDrawCall, DrawCall(NoBindings, NoBindings, Undef, 0, 3)}

\* Lifecycle, pipeline / program selection and render().
Next ==
  \/ Lifecycle
  \/ \E name \in Names, config \in PipelineConfigs : WGPU_createPipeline(name, config)
  \/ \E name \in Names : WGPU_setPipeline(name)
  \/ \E name \in Names : WGPU_destroyPipeline(name)
  \/ \E drawCall \in FrameDrawCalls : WGPU_render(drawCall)
  \/ \E name \in Names, build \in BuildResults : WGL_createProgram(name, build)
  \/ \E name \in Names : WGL_useProgram(name)
  \/ WGL_render

Spec == Init /\ [][Next]_vars

\* The buffer configs the buffer specification calls with: any name, data of
\* one byte or none, one usage flag or none, no index format or type.
BufferInputs(configs) ==
  {c \in configs : /\ c.data \in {NoData, 1}
                   /\ c.usage \in {0, 1}
                   /\ \A f \in DOMAIN c \ {"name", "data", "usage"} : c[f] = Undef}
\* The update calls it makes: any name, one byte, alone or the first of a
\* larger ArrayBuffer, at offset 0 or 1.
UpdateInputs == {a \in UpdateArgs : a.data = 1}

\* Buffer operations of both kinds of backend, over the lifecycle.
NextBuffers ==
  \/ Lifecycle
  \/ \E config \in BufferInputs(GPUBufferConfigs) : WGPU_createBuffer(config)
  \/ \E config \in BufferInputs(GLBufferConfigs) : WGL_createBuffer(config)
  \/ \E arg \in UpdateInputs : WGPU_updateBuffer(arg)
  \/ \E arg \in UpdateInputs : WGL_updateBuffer(arg)
  \/ \E name \in Names : WGPU_destroyBuffer(name)

SpecBuffers == Init /\ [][NextBuffers]_vars

\* The texture configs the texture specification calls with: named square
\* textures of any format, with the default usage where there is one.
TextureInputs(configs) ==
  {c \in configs : /\ c.name \in Names
                   /\ c.width = c.height
                   /\ c.width \in {1, MaxSize}
                   /\ "usage" \in DOMAIN c => c.usage = 0}
\* The updateTexture calls it makes: each of width and height omitted, 1 or
\* the largest extent.
TextureUpdateInputs ==
  {a \in TextureUpdateArgs : a.width \in {0, 1, MaxSize} /\ a.height \in {0, 1, MaxSize}}

\* Texture operations of both kinds of backend, over the lifecycle.
NextTextures ==
  \/ Granted
  \/ \E config \in TextureInputs(GPUTextureConfigs) : WGPU_createTexture(config)
  \/ \E config \in TextureInputs(GLTextureConfigs) : WGL_createTexture(config)
  \/ \E arg \in TextureUpdateInputs : WGPU_updateTexture(arg)
  \/ \E name \in Names : WGPU_destroyTexture(name)

SpecTextures == Init /\ [][NextTextures]_vars

\* Valid buffer configs: every required field is present; one byte or the
\* largest size; no index format or type.
ValidBuffers(configs) ==
  {c \in configs : /\ c.name \in Names
                   /\ c.data \in {1, MaxSize}
                   /\ c.usage # 0
                   /\ \A f \in DOMAIN c \ {"name", "data", "usage"} : c[f] = Undef}
\* Configs of the texture "a": each extent 1 or the largest, any format and
\* usage.
TexturesA(configs) ==
  {c \in configs : /\ c.name = "a"
                   /\ c.width \in {1, MaxSize}
                   /\ c.height \in {1, MaxSize}}

\* Creation of named resources of every registry that has a lookup, with
\* valid configs, in an environment that grants every request.
NextRegistry ==
  \/ Granted
  \/ \E config \in ValidBuffers(GPUBufferConfigs) : WGPU_createBuffer(config)
  \/ \E config \in TexturesA(GPUTextureConfigs) : WGPU_createTexture(config)
  \/ \E config \in PipelineConfigs : WGPU_createPipeline("a", config)
  \/ WGPU_setPipeline("a")
  \/ \E name \in Names : WGPU_createBindGroup(name)
  \/ \E config \in ValidBuffers(GLBufferConfigs) : WGL_createBuffer(config)
  \/ \E config \in TexturesA(GLTextureConfigs) : WGL_createTexture(config)
  \/ \E name \in Names : WGL_createProgram(name, "ok")

SpecRegistry == Init /\ [][NextRegistry]_vars

\* One valid config of each kind, all under the name "a".
BufferA(configs) == {c \in ValidBuffers(configs) : c.name = "a" /\ c.data = 1 /\ c.usage = 1}
TextureA(configs) ==
  {c \in TexturesA(configs) : /\ c.width = 1 /\ c.height = 1 /\ c.format = Undef
                              /\ "usage" \in DOMAIN c => c.usage = 0}
RenderTargetA ==
  {c \in RenderTargetConfigs : c.name = "a" /\ c.width = 1 /\ c.height = 1 /\ c.sampleCount = 0}

\* Everything that allocates a native buffer, texture, render target, layout
\* or vertex array, the renderer's own attachments included, in an
\* environment that grants every request.
NextTeardown ==
  \/ Granted
  \/ \E config \in BufferA(GPUBufferConfigs) : WGPU_createBuffer(config)
  \/ \E config \in TextureA(GPUTextureConfigs) : WGPU_createTexture(config)
  \/ \E config \in RenderTargetA : WGPU_createRenderTarget(config)
  \/ WGPU_createBindGroupLayout("a")
  \/ \E enabled \in BOOLEAN : WGPU_setMSAA(enabled)
  \/ \E enabled \in BOOLEAN : WGPU_setDepthState(enabled)
  \/ \E config \in BufferA(GLBufferConfigs) : WGL_createBuffer(config)
  \/ \E config \in TextureA(GLTextureConfigs) : WGL_createTexture(config)
  \/ \E complete \in BOOLEAN : WGL_createFramebuffer("a", complete)
  \/ WGL2_createVAO("a")

SpecTeardown == Init /\ [][NextTeardown]_vars

\* Every create* operation, over the whole lifecycle.
NextCreate ==
  \/ Lifecycle
  \/ \E config \in BufferA(GPUBufferConfigs) : WGPU_createBuffer(config)
  \/ \E config \in TextureA(GPUTextureConfigs) : WGPU_createTexture(config)
  \/ WGPU_createPipeline("a", [shaders |-> "s1", bindGroupLayouts |-> FALSE])
  \/ WGPU_createComputePipeline("a", "s1")
  \/ WGPU_setPipeline("a")
  \/ WGPU_createBindGroup("a")
  \/ WGPU_createBindGroupLayout("a")
  \/ WGPU_createSampler("a")
  \/ \E config \in RenderTargetA : WGPU_createRenderTarget(config)
  \/ \E config \in BufferA(GLBufferConfigs) : WGL_createBuffer(config)
  \/ \E config \in TextureA(GLTextureConfigs) : WGL_createTexture(config)
  \/ WGL_createProgram("a", "ok")
  \/ WGL_createFramebuffer("a", TRUE)
  \/ WGL2_createVAO("a")

SpecCreate == Init /\ [][NextCreate]_vars

\* The renderer's own attachments: the canvas and its size, the MSAA target
\* and the depth texture, in an environment that grants every request.
NextAttachments ==
  \/ Granted
  \/ \E width \in {1, MaxSize} : CanvasResize(width, 1)
  \/ \E enabled \in BOOLEAN : WGPU_setMSAA(enabled)
  \/ \E enabled \in BOOLEAN : WGPU_setDepthState(enabled)
  \/ WGPU_setSize

SpecAttachments == Init /\ [][NextAttachments]_vars

\* The render pass and what it is built from: the MSAA target, the depth
\* texture, a render target, a pipeline and render(), in an environment that
\* grants every request.
NextPass ==
  \/ Granted
  \/ WGPU_setMSAA(TRUE)
  \/ WGPU_setDepthState(TRUE)
  \/ \E config \in RenderTargetA : WGPU_createRenderTarget(config)
  \/ \E name \in {Undef, "a"} : WGPU_setRenderTarget(name)
  \/ WGPU_createPipeline("a", [shaders |-> "s1", bindGroupLayouts |-> FALSE])
  \/ WGPU_setPipeline("a")
  \/ WGPU_render(EmptyDrawCall)

SpecPass == Init /\ [][NextPass]_vars

\* The draw calls render() is given in the draw specification: no vertex
\* buffer, or "b" at slot 0 and "a" at slot 1; no bind group or "a" at index
\* 0; no index buffer or "a"; counts given or not.
DrawInputs ==
  {DrawCall(vbs, bgs, ib, ic, vc) :
     vbs \in {NoBindings, [x \in Slots |-> IF x = 0 THEN "b" ELSE "a"]},
     bgs \in {NoBindings, [x \in {0} |-> "a"]},
     ib \in {Undef, "a"}, ic \in {0, 6}, vc \in {0, 3}}
\* The draw calls draw() is given: attributes for no buffer or for "a" and
\* "b"; no index buffer or "a".
GLDrawInputs ==
  {d \in GLDrawCalls : d.attributes \in {{}, Names} /\ d.indices \in {Undef, "a"}}

\* Draw calls of every backend, with the buffer "a" and what a draw needs
\* (a pipeline, or a program and a vertex-array object), in an environment
\* that grants every request.
NextDraw ==
  \/ Granted
  \/ \E config \in BufferA(GPUBufferConfigs) : WGPU_createBuffer(config)
  \/ WGPU_createPipeline("a", [shaders |-> "s1", bindGroupLayouts |-> FALSE])
  \/ WGPU_setPipeline("a")
  \/ WGPU_createBindGroup("a")
  \/ \E drawCall \in DrawInputs : WGPU_render(drawCall)
  \/ \E config \in BufferA(GLBufferConfigs) : WGL_createBuffer(config)
  \/ WGL_createProgram("a", "ok")
  \/ WGL_useProgram("a")
  \/ WGL2_createVAO("a")
  \/ \E name \in {Undef, "a"} : WGL2_bindVAO(name)
  \/ \E drawCall \in GLDrawInputs : WGL_draw(drawCall)

SpecDraw == Init /\ [][NextDraw]_vars

\* Pipelines of both kinds over the two shader sources, compute dispatches
\* and frames, in an environment that grants every request.
NextCompute ==
  \/ Granted
  \/ \E name \in Names, code \in ShaderCodes :
       WGPU_createPipeline(name, [shaders |-> code, bindGroupLayouts |-> FALSE])
  \/ \E name \in Names, code \in ShaderCodes : WGPU_createComputePipeline(name, code)
  \/ WGPU_setPipeline("a")
  \/ WGPU_createBindGroup("a")
  \/ \E arg \in DispatchArgs : WGPU_dispatchCompute(arg)
  \/ WGPU_render(EmptyDrawCall)

SpecCompute == Init /\ [][NextCompute]_vars

\* The support probe, called at any moment of the lifecycle.
NextSupport ==
  \/ Granted
  \/ \E env \in ProbeEnvs : isSupported(env)

SpecSupport == Init /\ [][NextSupport]_vars

\* Selections ahead of a frame: a buffer, a pipeline and a bind group are
\* created and selected, and render() is given a draw call with no bindings.
NextSelect ==
  \/ Granted
  \/ \E config \in BufferA(GPUBufferConfigs) : WGPU_createBuffer(config)
  \/ WGPU_createPipeline("a", [shaders |-> "s1", bindGroupLayouts |-> FALSE])
  \/ WGPU_setPipeline("a")
  \/ WGPU_createBindGroup("a")
  \/ \E name \in Names : WGPU_setBindGroup(name, 0)
  \/ \E name \in Names : WGPU_setVertexBuffer(0, name)
  \/ WGPU_render(DrawCall(NoBindings, NoBindings, Undef, 0, 3))

SpecSelect == Init /\ [][NextSelect]_vars

\* The arguments of the state setters: the omitted one, and one that is
\* not the default.
BlendFuncs == {Undef, "ONE"}
DepthFuncs == {Undef, "GREATER"}
CullModes == {Undef, "FRONT"}

\* The WebGL renderers' blend, depth-test and cull-face setters, across
\* initialize and destroy.
NextRenderState ==
  \/ WGL_initialize(TRUE, TRUE)
  \/ WGL2_initialize(TRUE, TRUE)
  \/ WGL_destroy
  \/ \E enabled \in BOOLEAN, func \in BlendFuncs : WGL_setBlendState(enabled, func)
  \/ \E enabled \in BOOLEAN, func \in DepthFuncs : WGL_setDepthTest(enabled, func)
  \/ \E enabled \in BOOLEAN, mode \in CullModes : WGL_setCullFace(enabled, mode)
SpecRenderState == Init /\ [][NextRenderState]_vars

\* Programs and framebuffers whose creation the context may refuse.
NextFailure ==
  \/ WGL_initialize(TRUE, TRUE)
  \/ WGL2_initialize(TRUE, TRUE)
  \/ WGL_destroy
  \/ \E name \in Names, build \in BuildResults : WGL_createProgram(name, build)
  \/ \E name \in Names, complete \in BOOLEAN : WGL_createFramebuffer(name, complete)
SpecFailure == Init /\ [][NextFailure]_vars

\* The render pass on a render target, with a device request that may fail:
\* an initialize() repeated on an initialized renderer can leave it without
\* a device, and setMSAA then sets the sample count and fails to allocate.
NextStore ==
  \/ WGPU_initialize(TRUE)
  \/ WGPU_initialize_adapter(TRUE)
  \/ \E deviceOk \in BOOLEAN : WGPU_initialize_device(deviceOk, TRUE)
  \/ WGPU_setMSAA(TRUE)
  \/ \E config \in RenderTargetA : WGPU_createRenderTarget(config)
  \/ \E name \in {Undef, "a"} : WGPU_setRenderTarget(name)
  \/ WGPU_createPipeline("a", [shaders |-> "s1", bindGroupLayouts |-> FALSE])
  \/ WGPU_setPipeline("a")
  \/ WGPU_render(EmptyDrawCall)
SpecStore == Init /\ [][NextStore]_vars

\* The events the listener specification listens to.
Listened == {"initialized", "frameRendered"}

\* Listeners come and go while the renderer is initialized, renders and is
\* destroyed.
NextEvents ==
  \/ Granted
  \/ \E event \in Listened, callback \in Callbacks : on(event, callback)
  \/ \E event \in Listened, callback \in Callbacks : off(event, callback)
  \/ WGPU_createPipeline("a", [shaders |-> "s1", bindGroupLayouts |-> FALSE])
  \/ WGPU_setPipeline("a")
  \/ WGPU_render(EmptyDrawCall)
  \/ WGL_render

SpecEvents == Init /\ [][NextEvents]_vars

\* ------------------------------------------------------------------ claims
\* How many times event e occurs in the emit() calls of the last operation.
Emitted(e) == Cardinality({i \in DOMAIN events : events[i] = e})
\* How many times the last operation made the native call c.
Called(c) == Cardinality({i \in DOMAIN native : native[i] = c})
\* No pipeline (encoder-based backend) / program (immediate-mode) is active.
NoActivePipeline == IF IsGPU THEN currentPipeline_ = Undef ELSE currentProgram_ = Undef

\* C1: on every backend, a render() call made on an initialized renderer
\* while no pipeline/program is active fails with NoPipelineSet, submits
\* nothing natively and emits no frameRendered; a render() call that succeeds
\* emits frameRendered exactly once.  (render() changes none of
\* isInitialized, currentPipeline_ and currentProgram_, so the state after
\* the call tells what they were.)
C1_RenderWithoutPipelineFails ==
  (lastOp = "render" /\ isInitialized) =>
    /\ NoActivePipeline =>
         /\ lastResult = "NoPipelineSet"
         /\ Called("submit") = 0
         /\ Emitted("frameRendered") = 0
    /\ lastResult = "ok" => Emitted("frameRendered") = 1

\* C2: after any sequence of operations the frame counter equals the number
\* of frameRendered events emitted (render() calls that fail or return early
\* leave it unchanged).
C2_FrameCountIsFramesRendered == frameCount_ = frameRenderedCount

\* C3: an initialize() call on a renderer that is not initialized ends either
\* resolved, with isInitialized true and the four default render states
\* applied (clear color, depth test, blend, cull face), or rejected, with
\* isInitialized false.
C3_InitializeAllOrNothing ==
  [][(lastOp' = "initialize" /\ lastResult' # "pending" /\ ~isInitialized) =>
       \/ lastResult' = "ok" /\ isInitialized' /\ applied' = DefaultStates
       \/ lastResult' # "ok" /\ ~isInitialized']_vars

\* C4: after destroy() has returned, every native buffer, texture and
\* render-target handle the renderer had allocated, the attachments it
\* allocated for itself included, is released, and every named registry of
\* the renderer is empty.
C4_DestroyReleasesEverything ==
  (lastOp = "destroy" /\ lastResult = "ok") =>
    /\ Live({"buffer", "texture", "renderTarget", "msaaTexture", "depthTexture"}) = {}
    /\ \A reg \in {buffers_, textures_, pipelines_, computePipelines_, samplers_,
                   bindGroups_, bindGroupLayouts_, renderTargets_, shaderModules_,
                   programs_, framebuffers_, VAOs_} : DOMAIN reg = {}

\* C5: after destroy(), every updateBuffer and updateTexture call, whatever
\* the name, fails with NotInitialized.
C5_UpdateAfterDestroyFails ==
  (wasDestroyed /\ lastOp \in {"updateBuffer", "updateTexture"}) =>
    lastResult = "NotInitialized"

\* The create* operations of the three backends.
CreateOps ==
  {"createBuffer", "createTexture", "createProgram", "createPipeline",
   "createComputePipeline", "createBindGroup", "createBindGroupLayout",
   "createSampler", "createRenderTarget", "createFramebuffer", "createVAO"}

\* C6: every create* operation called while isInitialized is false fails
\* with NotInitialized and changes no registry.
C6_CreateRequiresInitialized ==
  [][(lastOp' \in CreateOps /\ ~isInitialized) =>
       /\ lastResult' = "NotInitialized"
       /\ UNCHANGED registryVars]_vars

\* The required fields a createBuffer config lacks.
MissingFields(config) ==
  {f \in {"name", "data", "usage"} :
     \/ f = "name" /\ config.name = Undef
     \/ f = "data" /\ config.data = NoData
     \/ f = "usage" /\ config.usage = 0}

\* C7: on every backend, createBuffer called on an initialized renderer with
\* a config that lacks name, data or usage fails with InvalidConfig naming a
\* field that is missing, allocates no native buffer, adds no registry entry
\* and emits no bufferCreated.
C7_CreateBufferValidates ==
  [][(lastOp' = "createBuffer" /\ isInitialized /\ MissingFields(lastArg') # {}) =>
       /\ \E f \in MissingFields(lastArg') : lastResult' = "InvalidConfig:" \o f
       /\ handles' = handles
       /\ buffers_' = buffers_
       /\ \A i \in DOMAIN events' : events'[i] # "bufferCreated"]_vars

\* C8: right after a buffer, texture, pipeline, bind group or program was
\* created under a name, the lookup by that name returns the handle the
\* create call returned, which is the newest native object and is live, and
\* the metadata getters return the size, usage, format and dimensions the
\* config gave.
C8_LookupReturnsCreated ==
  (lastResult = "ok" /\ lastOp \in {"createBuffer", "createTexture", "createPipeline",
                                    "createBindGroup", "createProgram"}) =>
    /\ lastRet = Len(handles)
    /\ handles[lastRet].live
    /\ lastOp = "createBuffer" =>
         /\ getBuffer(lastArg.name) = lastRet
         /\ IsGPU => /\ getBufferMetadata(lastArg.name).size = lastArg.data
                     /\ getBufferMetadata(lastArg.name).usage = lastArg.usage
    /\ lastOp = "createTexture" =>
         /\ getTexture(lastArg.name) = lastRet
         /\ IsGPU => /\ getTextureMetadata(lastArg.name).width = lastArg.width
                     /\ getTextureMetadata(lastArg.name).height = lastArg.height
                     /\ lastArg.format # Undef =>
                          getTextureMetadata(lastArg.name).format = lastArg.format
                     /\ lastArg.usage # 0 =>
                          getTextureMetadata(lastArg.name).usage = lastArg.usage
    /\ lastOp = "createPipeline" => getPipeline(lastArg) = lastRet
    /\ lastOp = "createBindGroup" => getBindGroup(lastArg) = lastRet
    /\ lastOp = "createProgram" => getProgram(lastArg) = lastRet

\* A texture of two different extents and an explicit format and usage was
\* just created on the encoder-based backend.
C8_Witness ==
  /\ IsGPU
  /\ lastOp = "createTexture"
  /\ lastResult = "ok"
  /\ lastArg.width # lastArg.height
  /\ lastArg.format # Undef
  /\ lastArg.usage # 0
  /\ getTexture(lastArg.name) = lastRet

\* C9: a create call under a name that is already registered succeeds (no
\* collision error: the model has no such outcome, the step below is the
\* successful call), the lookup then returns the new handle, which is not the
\* prior one, the registry has as many entries as before, and the prior
\* native handle is as live as it was.
C9_DuplicateNameOverwrites ==
  [][lastResult' = "ok" =>
       /\ (lastOp' = "createBuffer" /\ Has(buffers_, lastArg'.name)) =>
            LET old == buffers_[lastArg'.name].buffer
            IN /\ buffers_'[lastArg'.name].buffer = lastRet'
               /\ lastRet' # old
               /\ Cardinality(DOMAIN buffers_') = Cardinality(DOMAIN buffers_)
               /\ handles'[old].live = handles[old].live
       /\ (lastOp' = "createTexture" /\ Has(textures_, lastArg'.name)) =>
            LET old == textures_[lastArg'.name].texture
            IN /\ textures_'[lastArg'.name].texture = lastRet'
               /\ lastRet' # old
               /\ Cardinality(DOMAIN textures_') = Cardinality(DOMAIN textures_)
               /\ handles'[old].live = handles[old].live
       /\ (lastOp' = "createPipeline" /\ Has(pipelines_, lastArg')) =>
            LET old == pipelines_[lastArg']
            IN /\ pipelines_'[lastArg'] = lastRet'
               /\ lastRet' # old
               /\ Cardinality(DOMAIN pipelines_') = Cardinality(DOMAIN pipelines_)
               /\ handles'[old].live = handles[old].live
       /\ (lastOp' = "createBindGroup" /\ Has(bindGroups_, lastArg')) =>
            LET old == bindGroups_[lastArg']
            IN /\ bindGroups_'[lastArg'] = lastRet'
               /\ lastRet' # old
               /\ Cardinality(DOMAIN bindGroups_') = Cardinality(DOMAIN bindGroups_)
               /\ handles'[old].live = handles[old].live
       /\ (lastOp' = "createProgram" /\ Has(programs_, lastArg')) =>
            LET old == programs_[lastArg']
            IN /\ programs_'[lastArg'] = lastRet'
               /\ lastRet' # old
               /\ Cardinality(DOMAIN programs_') = Cardinality(DOMAIN programs_)
               /\ handles'[old].live = handles[old].live]_vars

\* A buffer was just created over a registered name: two native buffers are
\* live and the registry holds one entry, the newer buffer.
C9_Witness ==
  /\ lastOp = "createBuffer"
  /\ lastResult = "ok"
  /\ Cardinality(DOMAIN buffers_) = 1
  /\ Cardinality(Live({"buffer"})) = 2
  /\ getBuffer(lastArg.name) = Len(handles)

\* C10: an updateTexture call on a registered texture of an initialized
\* renderer keeps the native texture when each of width and height is omitted
\* or equal to the stored one; when a supplied width or height differs from
\* the stored one, the entry gets a newly allocated texture whose dimensions
\* are the supplied ones (the stored one where omitted), with the stored
\* format and usage.
C10_UpdateTextureReallocates ==
  [][(lastOp' = "updateTexture" /\ isInitialized /\ device_ # "null"
        /\ Has(textures_, lastArg'.name)) =>
       LET arg == lastArg'
           meta == textures_[arg.name]
           differs == \/ arg.width # 0 /\ arg.width # meta.width
                      \/ arg.height # 0 /\ arg.height # meta.height
       IN IF differs
          THEN /\ Has(textures_', arg.name)
               /\ textures_'[arg.name].texture # meta.texture
               /\ textures_'[arg.name].texture = Len(handles')
               /\ Len(handles') = Len(handles) + 1
               /\ textures_'[arg.name].width = IF arg.width # 0 THEN arg.width ELSE meta.width
               /\ textures_'[arg.name].height =
                    IF arg.height # 0 THEN arg.height ELSE meta.height
               /\ textures_'[arg.name].format = meta.format
               /\ textures_'[arg.name].usage = meta.usage
          ELSE /\ Has(textures_', arg.name)
               /\ textures_'[arg.name].texture = meta.texture
               /\ handles' = handles]_vars

\* C12: an updateBuffer call with N bytes at offset 0 on a buffer created
\* with N bytes succeeds, leaves the stored metadata (size N included) as it
\* was, and writes exactly N bytes at offset 0 of that native buffer.
C12_UpdateRoundTrip ==
  [][(/\ lastOp' = "updateBuffer"
      /\ isInitialized
      /\ IF IsGPU THEN device_ # "null" ELSE context # "null"
      /\ Has(buffers_, lastArg'.name)
      /\ lastArg'.offset = 0
      /\ lastArg'.data = buffers_[lastArg'.name].size) =>
       /\ lastResult' = "ok"
       /\ buffers_' = buffers_
       /\ buffers_'[lastArg'.name].size = lastArg'.data
       /\ lastRet' = Write(buffers_[lastArg'.name].buffer, 0, lastArg'.data)]_vars

\* C13: on an initialized renderer, updateBuffer with a name that is not
\* registered fails with NotFound, makes no native call, changes no registry
\* and emits nothing.  (Before initialize() and after destroy() the
\* encoder-based backend answers NotInitialized first.)
C13_UpdateUnknownBufferFails ==
  [][(lastOp' = "updateBuffer" /\ isInitialized /\ ~Has(buffers_, lastArg'.name)) =>
       /\ lastResult' = "NotFound"
       /\ native' = <<>>
       /\ events' = <<>>
       /\ UNCHANGED registryVars
       /\ handles' = handles]_vars

\* An updateBuffer call on a registered buffer was answered NotFound for
\* another, unregistered name.
C13_Witness ==
  /\ lastOp = "updateBuffer"
  /\ lastResult = "NotFound"
  /\ isInitialized
  /\ buffers_ # Empty
  /\ ~Has(buffers_, lastArg.name)

\* C14: on every backend, an updateBuffer call on a registered buffer whose
\* offset plus data length exceeds the buffer's size logs a warning or is
\* rejected.  (updateBuffer changes neither the registry nor isInitialized.)
C14_OverflowSurfaced ==
  (/\ lastOp = "updateBuffer"
   /\ isInitialized
   /\ Has(buffers_, lastArg.name)
   /\ lastArg.offset + lastArg.data > buffers_[lastArg.name].size) =>
    \/ Called("console.warn") > 0
    \/ lastResult # "ok"

\* How many times callback cb was called for event e by the last operation.
Invoked(e, cb) ==
  Cardinality({i \in DOMAIN dispatched.invoked : dispatched.invoked[i] = <<e, cb>>})

\* C15: whatever the listeners do, no exception of a listener leaves emit();
\* for every event the last operation emitted, every callback registered for
\* it was called once per emission, a throwing one included, and every throw
\* was logged; an operation that emits frameRendered has ended normally with
\* the frame counted.  (Only on and off change the listeners, and they emit
\* nothing.)
C15_ListenersIsolated ==
  /\ ~dispatched.thrown
  /\ lastOp \notin {"on", "off"} =>
       /\ \A e \in Listened, cb \in Callbacks :
            Invoked(e, cb) =
              IF \E i \in DOMAIN ListenersOf(eventListeners_, e) :
                   ListenersOf(eventListeners_, e)[i] = cb
              THEN Emitted(e) ELSE 0
       /\ Len(dispatched.logged) =
            Cardinality({i \in DOMAIN dispatched.invoked :
                           dispatched.invoked[i][2] \in Throwing})
  /\ (lastOp = "render" /\ Emitted("frameRendered") = 1) => lastResult = "ok"

\* render() announced a frame to a throwing listener and then to another one.
C15_Witness ==
  /\ lastOp = "render"
  /\ lastResult = "ok"
  /\ ListenersOf(eventListeners_, "frameRendered") = <<"g", "f">>
  /\ dispatched.invoked = <<<<"frameRendered", "g">>, <<"frameRendered", "f">>>>
  /\ dispatched.logged = <<"frameRendered">>

\* C16: a selection by a name that is not registered (setPipeline on the
\* WebGPU backend, useProgram on the WebGL backends) ends with an error and
\* leaves every current-selection field as it was; it is never a call that
\* returns normally having done nothing.
C16_SelectUnknownFails ==
  [][(/\ isInitialized
      /\ \/ lastOp' = "setPipeline" /\ ~Has(pipelines_, lastArg')
         \/ lastOp' = "useProgram" /\ ~Has(programs_, lastArg'))
     => /\ lastResult' # "ok"
        /\ UNCHANGED trackerVars]_vars

\* C17: useProgram(name) of a registered program: when name is already
\* currentProgram_ there is no native bind and no programSet; otherwise there
\* is exactly one native useProgram, of that program, currentProgram_ becomes
\* name and programSet is emitted once.
C17_UseProgramSkipsRedundant ==
  [][(lastOp' = "useProgram" /\ Has(programs_, lastArg') /\ context # "null")
     => IF currentProgram_ = lastArg'
        THEN /\ lastResult' = "ok"
             /\ native' = <<>>
             /\ events' = <<>>
             /\ UNCHANGED <<currentProgram_, glProgram>>
        ELSE /\ lastResult' = "ok"
             /\ native' = <<"useProgram">>
             /\ glProgram' = programs_[lastArg']
             /\ currentProgram_' = lastArg'
             /\ events' = <<"programSet">>]_vars

\* useProgram was called with the program that was already current, while
\* another program is registered too.
C17_Witness ==
  /\ lastOp = "useProgram"
  /\ lastResult = "ok"
  /\ native = <<>>
  /\ currentProgram_ = lastArg
  /\ Has(programs_, lastArg)
  /\ \E other \in Names : other # lastArg /\ Has(programs_, other)

\* The live native MSAA targets.
LiveMSAA(h) == {i \in DOMAIN h : h[i].kind = "msaaTexture" /\ h[i].live}

\* C11: a setMSAA(false) that returns true leaves no MSAA target: the one
\* there was is destroyed and msaaTexture_ is null.  A setMSAA(true) that
\* returns true leaves exactly one live MSAA target, newly allocated, with
\* the canvas's width and height of that moment, and the target there was
\* before is destroyed.
C11_MSAATargetReplaced ==
  [][(lastOp' = "setMSAA" /\ lastResult' = "ok")
     => /\ msaaTexture_ # NullTexture => ~handles'[msaaTexture_.texture].live
        /\ IF lastArg'
           THEN /\ msaaTexture_' # NullTexture
                /\ msaaTexture_'.texture = Len(handles')
                /\ Len(handles') = Len(handles) + 1
                /\ msaaTexture_'.width = canvas.width
                /\ msaaTexture_'.height = canvas.height
                /\ LiveMSAA(handles') = {msaaTexture_'.texture}
           ELSE /\ msaaTexture_' = NullTexture
                /\ LiveMSAA(handles') = {}]_vars

\* MSAA was enabled while a target of another size existed: the canvas had
\* been resized since.
C11_Witness ==
  /\ lastOp = "setMSAA"
  /\ lastResult = "ok"
  /\ lastArg = TRUE
  /\ Called("destroy") = 1
  /\ msaaTexture_.width = MaxSize
  /\ \E i \in DOMAIN handles :
       /\ handles[i].kind = "msaaTexture"
       /\ ~handles[i].live
       /\ i # msaaTexture_.texture

\* C18: setDepthState allocates a depth/stencil texture only when it enables
\* depth and there is none yet, and then exactly one; once there is one, no
\* setDepthState call, enabling or disabling, allocates, replaces or destroys
\* anything, and no operation ever takes the renderer back to having none:
\* over the enable/disable calls the texture is allocated once.
C18_DepthAllocatedOnce ==
  [][/\ depthStencilTexture_ # NullTexture => depthStencilTexture_' # NullTexture
     /\ lastOp' = "setDepthState" =>
          IF depthStencilTexture_ # NullTexture
          THEN /\ handles' = handles
               /\ depthStencilTexture_' = depthStencilTexture_
               /\ native' = <<>>
               /\ lastResult' = "ok"
          ELSE IF lastArg' /\ device_ # "null"
          THEN /\ Len(handles') = Len(handles) + 1
               /\ depthStencilTexture_' # NullTexture
               /\ depthStencilTexture_'.texture = Len(handles')
               /\ handles'[Len(handles')].live
               /\ Called("createTexture")' = 1
          ELSE /\ handles' = handles
               /\ depthStencilTexture_' = NullTexture]_vars

\* Depth was enabled again while the texture of an earlier enable exists:
\* nothing was allocated.
C18_Witness ==
  /\ lastOp = "setDepthState"
  /\ lastArg = TRUE
  /\ lastResult = "ok"
  /\ native = <<>>
  /\ depthEnabled_
  /\ depthStencilTexture_ # NullTexture
  /\ handles[depthStencilTexture_.texture].live

\* C19: after a render() that submitted its pass, the pass has a
\* depth/stencil attachment exactly when depthEnabled_ is true (render()
\* does not change it), and an attachment clears depth to 1 and stencil to 0
\* with both load operations "clear".
C19_DepthAttachedIffEnabled ==
  (lastOp = "render" /\ lastResult = "ok" /\ lastPass.begun /\ lastPass.submitted)
  => /\ lastPass.depth.attached <=> depthEnabled_
     /\ lastPass.depth.attached =>
          /\ lastPass.depth.depthClearValue = 1
          /\ lastPass.depth.stencilClearValue = 0
          /\ lastPass.depth.depthLoadOp = "clear"
          /\ lastPass.depth.stencilLoadOp = "clear"

UnknownBinding ==
  IF IsGPU
  THEN \/ \E x \in DOMAIN lastArg.vertexBuffers : ~Has(buffers_, lastArg.vertexBuffers[x])
       \/ \E x \in DOMAIN lastArg.bindGroups : ~Has(bindGroups_, lastArg.bindGroups[x])
  ELSE \E n \in lastArg.attributes : ~Has(buffers_, n)

\* C21: a render() or draw() that ran to its end with a binding name that is
\* not registered has logged the name, has applied the registered bindings,
\* and has submitted the pass and emitted frameRendered (render) or emitted
\* draw (draw).
C21_UnknownBindingLoggedAndSkipped ==
  (lastOp \in {"render", "draw"} /\ lastResult = "ok" /\ UnknownBinding)
  => /\ Called("console.warn") + Called("console.error") + Called("console.log") > 0
     /\ IF IsGPU
        THEN /\ lastPass.submitted
             /\ lastPass.vertexBuffers = BoundBuffers(lastArg.vertexBuffers)
             /\ lastPass.bindGroups = BoundGroups(lastArg.bindGroups)
             /\ lastPass.draw = DrawIssued(lastArg)
             /\ Emitted("frameRendered") = 1
        ELSE /\ lastRet = GLDrawIssued(lastArg)
             /\ Emitted("draw") = 1

\* The index buffer the last draw call names, if any.
IndexName == IF IsGPU THEN lastArg.indexBuffer ELSE lastArg.indices
\* The draw the last draw call issued.
Issued == IF IsGPU THEN lastPass.draw ELSE lastRet

\* C22: a render() or draw() that ran to its end issued one indexed draw if
\* the call names an index buffer, with the element format stored with the
\* buffer (16-bit when none is stored); one non-indexed draw if it names
\* none and gives a vertex count; no draw otherwise.
C22_OneDrawPerCall ==
  (lastOp \in {"render", "draw"} /\ lastResult = "ok")
  => IF IndexName # Undef
     THEN /\ Issued.kind \in {"drawIndexed", "drawElements"}
          /\ Called(Issued.kind) = 1
          /\ Has(buffers_, IndexName)
          /\ Issued.indexFormat =
               IF IsGPU
               THEN IF buffers_[IndexName].indexFormat = Undef
                    THEN "uint16" ELSE buffers_[IndexName].indexFormat
               ELSE "UNSIGNED_SHORT"
     ELSE IF (IF IsGPU THEN lastArg.vertexCount ELSE lastArg.count) # 0
     THEN /\ Issued.kind \in {"draw", "drawArrays"}
          /\ Called(Issued.kind) = 1
     ELSE /\ Issued.kind = "none"
          /\ Called("draw") + Called("drawIndexed") + Called("drawArrays")
               + Called("drawElements") = 0

\* C23: on the WebGL2 backend, after any draw() made while a vertex-array
\* object is current, however draw() ended, no vertex-array object is
\* natively bound; and when draw() issued a draw the VAO was bound before it.
C23_VAOWrapsDraw ==
  (lastOp = "draw" /\ backend = "wgl2" /\ currentVAO_ # Undef)
  => /\ glVertexArray = NoHandle
     /\ lastResult = "ok" => /\ native # <<>>
                             /\ Head(native) = "bindVertexArray"
                             /\ native[Len(native)] = "bindVertexArray"

\* C24: dispatchCompute of a name that is not a registered compute pipeline
\* ends with NotFound, with no native call and no event.  With a registered
\* name (and a device) it makes exactly one dispatch and exactly one submit,
\* the submit being its last native call, and emits computeDispatched once.
\* No render() carries a dispatch.
C24_DispatchSubmitsAtOnce ==
  /\ lastOp = "dispatchCompute" =>
       IF ~Has(computePipelines_, lastArg.pipelineName)
       THEN /\ lastResult = "NotFound"
            /\ native = <<>>
            /\ events = <<>>
       ELSE device_ # "null" =>
              /\ lastResult = "ok"
              /\ lastRet = computePipelines_[lastArg.pipelineName]
              /\ Called("dispatchWorkgroups") = 1
              /\ Called("submit") = 1
              /\ native[Len(native)] = "submit"
              /\ events = <<"computeDispatched">>
  /\ lastOp = "render" => Called("dispatchWorkgroups") = 0

\* A registered compute pipeline was dispatched.
C24_Witness ==
  /\ lastOp = "dispatchCompute"
  /\ lastResult = "ok"
  /\ Has(computePipelines_, lastArg.pipelineName)
  /\ Called("submit") = 1

\* C28: a createPipeline or createComputePipeline call compiles a shader
\* module exactly when its source is not in the cache, and then exactly one;
\* a cached module stays the module of its source until destroy(); and for
\* every cached source a further request compiles nothing and gets the
\* cached module.
C28_ShaderModuleCompiledOnce ==
  [][/\ lastOp' \in {"createPipeline", "createComputePipeline"} =>
          /\ Called("createShaderModule")' =
               Cardinality(DOMAIN shaderModules_' \ DOMAIN shaderModules_)
          /\ Called("createShaderModule")' <= 1
     /\ lastOp' # "destroy" =>
          \A code \in DOMAIN shaderModules_ :
            /\ Has(shaderModules_', code)
            /\ shaderModules_'[code] = shaderModules_[code]
     /\ \A code \in DOMAIN shaderModules_' :
          /\ getShaderModule_(shaderModules_', handles', code) = shaderModules_'
          /\ ShaderHandles(shaderModules_', handles', code) = handles']_vars

\* A second pipeline was created from a source that was already compiled:
\* nothing was compiled.
C28_Witness ==
  /\ lastOp \in {"createPipeline", "createComputePipeline"}
  /\ lastResult = "ok"
  /\ Called("createShaderModule") = 0
  /\ Cardinality(DOMAIN pipelines_) + Cardinality(DOMAIN computePipelines_) >= 2
  /\ Cardinality(DOMAIN shaderModules_) = 1

\* C25: an initialize() whose support probe answers false ends with
\* UnsupportedBackend, having made no native call and emitted nothing, with
\* isInitialized, the context, the device and the canvas as they were.
C25_UnsupportedFailsFirst ==
  [][(/\ lastOp' = "initialize"
      /\ IsGL \/ initPc = "idle"
      /\ ~lastArg'.supported)
     => /\ lastResult' = "UnsupportedBackend"
        /\ native' = <<>>
        /\ events' = <<>>
        /\ initPc' = "idle"
        /\ UNCHANGED <<isInitialized, context, device_, canvasCtx, applied>>]_vars

\* initialize() was called on an initialized renderer while the probe
\* answered false: it failed and the renderer is still initialized.
C25_Witness ==
  /\ lastOp = "initialize"
  /\ lastResult = "UnsupportedBackend"
  /\ lastArg = Probe(FALSE)
  /\ isInitialized
  /\ context # "null"

\* C26: an initialize() that resolves has applied the four default render
\* states, in the order clear color, depth test, blend, cull face, has set
\* isInitialized and has emitted initialized exactly once; an initialize()
\* that rejects has emitted no initialized event.
C26_InitializeAppliesDefaultsInOrder ==
  [][lastOp' = "initialize" =>
       /\ lastResult' = "ok" =>
            /\ applied' = <<"clearColor", "depthTest", "blend", "cullFace">>
            /\ isInitialized'
            /\ Emitted("initialized")' = 1
       /\ lastResult' # "ok" => Emitted("initialized")' = 0]_vars

\* C27: a step of initialize() that rejects leaves the context, the device
\* and isInitialized as they were; and an initialize() that obtains
\* everything it asks for ends with the renderer ready, whatever failed
\* before.
C27_FailedInitializeLeavesNothing ==
  [][lastOp' = "initialize" =>
       /\ lastResult' \notin {"ok", "pending"} =>
            UNCHANGED <<context, device_, isInitialized>>
       /\ lastResult' = "ok" =>
            /\ isInitialized'
            /\ context' # "null"
            /\ IsGPU => device_' # "null"]_vars

\* C29: the static isSupported() changes nothing of the renderer, and it
\* returns true only if it acquired a probe context (it asked for one and
\* got an object) and that object is of the family of its own backend.
C29_SupportProbeChecksFamily ==
  [][lastOp' = "isSupported" =>
       /\ UNCHANGED <<backend, renderState, canvas, handles, lifecycleVars, registryVars, trackerVars,
                      frameVars, eventListeners_>>
       /\ lastRet' =>
            /\ Called("getContext")' > 0
            /\ ProbeContext(lastArg') =
                 (IF backend = "wgl2" THEN "WebGL2RenderingContext"
                  ELSE "WebGLRenderingContext")]_vars

\* C30: a destroy() called right after a destroy() that returned returns
\* too, makes no native call (nothing is released again) and changes nothing
\* of the renderer.
C30_DestroyIdempotent ==
  [][(lastOp = "destroy" /\ lastResult = "ok" /\ lastOp' = "destroy")
     => /\ lastResult' = "ok"
        /\ native' = <<>>
        /\ events' = <<"destroyed">>
        /\ UNCHANGED <<backend, renderState, canvas, handles, lifecycleVars, registryVars, trackerVars,
                       frameVars, wasDestroyed>>]_vars

\* destroy() was called on a destroyed renderer whose first destroy() had
\* released a handle: it returned having released nothing.
C30_Witness ==
  /\ lastOp = "destroy"
  /\ lastResult = "ok"
  /\ native = <<>>
  /\ wasDestroyed
  /\ ~isInitialized
  /\ \E i \in DOMAIN handles :
       handles[i].kind \in {"buffer", "texture", "renderTarget"} /\ ~handles[i].live

\* C31: in the pass a render() submitted, every vertex buffer selected with
\* setVertexBuffer is bound at its slot and every bind group selected with
\* setBindGroup is bound at its index, unless the draw call binds that slot
\* or index itself.
C31_SelectionsReachThePass ==
  (lastOp = "render" /\ lastResult = "ok" /\ lastPass.begun /\ lastPass.submitted)
  => /\ \A slot \in DOMAIN currentVertexBuffers_ \ DOMAIN lastArg.vertexBuffers :
          /\ slot \in DOMAIN lastPass.vertexBuffers
          /\ lastPass.vertexBuffers[slot] = currentVertexBuffers_[slot]
     /\ \A index \in DOMAIN currentBindGroups_ \ DOMAIN lastArg.bindGroups :
          /\ index \in DOMAIN lastPass.bindGroups
          /\ lastPass.bindGroups[index] = currentBindGroups_[index]

\* The setters of the WebGL render state.
StateSetters == {"setBlendState", "setDepthTest", "setCullFace"}

\* C32: on the WebGL backends, after a call of setBlendState, setDepthTest
\* or setCullFace that returned, the stored toggles and parameters (blend
\* and its factors, depth test and its function, cull face and its mode)
\* are the ones last applied to the context.
\* A parameter that was never applied has no applied value to compare with.
C32_TrackerMirrorsContext ==
  (IsGL /\ lastOp \in StateSetters /\ lastResult = "ok")
  => /\ \A f \in {"blend", "depthTest", "cullFace"} :
          renderState.tracker[f] = renderState.applied[f]
     /\ \A f \in {"blendFunc", "depthFunc", "cullMode"} :
          renderState.applied[f] # "none" => renderState.tracker[f] = renderState.applied[f]

\* The outcomes of a creation the native layer refused.
NativeFailures == {"CompileOrLinkFailed", "FramebufferIncomplete"}

C34_CurrentPipelineRegistered ==
  IsGPU => (currentPipeline_ = Undef \/ Has(pipelines_, currentPipeline_))

\* The sample count of an attachment's texture; the canvas's current texture
\* (no handle) is single-sampled.
SampleCount(texture) == IF texture = NoHandle THEN 1 ELSE handles[texture].samples

\* C35: in a render pass that was begun and submitted, the color attachment,
\* the depth/stencil attachment (when there is one) and the pipeline set on
\* the pass all have the same sample count.
C35_PassSampleCountsAgree ==
  (lastOp = "render" /\ lastResult = "ok" /\ lastPass.begun /\ lastPass.submitted)
  => /\ SampleCount(lastPass.pipeline) = SampleCount(lastPass.color.texture)
     /\ lastPass.depth.attached =>
          SampleCount(lastPass.depth.texture) = SampleCount(lastPass.color.texture)

\* C36: on the encoder-based backend the step that follows a destroy() --
\* the start of a new initialize(), the resumption of an initialize() that
\* was suspended on the adapter or the device when destroy() ran, or any
\* other call -- leaves isInitialized false and the device and the context
\* null.
C36_DestroyedStaysDown ==
  [][(IsGPU /\ lastOp = "destroy" /\ lastResult = "ok")
       => (~isInitialized' /\ device_' = "null" /\ context' = "null")]_vars

\* C37: on the WebGL backends, while the renderer is initialized and
\* currentProgram_ is not null, the program bound on the context is the
\* program object programs_ holds under that name.
C37_BoundProgramIsRegistered ==
  (IsGL /\ isInitialized /\ currentProgram_ # Undef)
  => (Has(programs_, currentProgram_) /\ glProgram = programs_[currentProgram_])

\* C38: a destroyBuffer, destroyTexture or destroyPipeline call emits its
\* bufferDestroyed / textureDestroyed / pipelineDestroyed event exactly when
\* it removed a registered resource; on an unregistered name it emits
\* nothing.
C38_DestroyedEventIffRemoved ==
  [][/\ lastOp' = "destroyBuffer" =>
          (events' = <<"bufferDestroyed">>
             <=> (Has(buffers_, lastArg') /\ ~Has(buffers_', lastArg')))
     /\ lastOp' = "destroyTexture" =>
          (events' = <<"textureDestroyed">>
             <=> (Has(textures_, lastArg') /\ ~Has(textures_', lastArg')))
     /\ lastOp' = "destroyPipeline" =>
          (events' = <<"pipelineDestroyed">>
             <=> (Has(pipelines_, lastArg') /\ ~Has(pipelines_', lastArg')))
     /\ (lastOp' \in {"destroyBuffer", "destroyTexture", "destroyPipeline"}
           /\ ~Has(buffers_, lastArg') /\ ~Has(textures_, lastArg')
           /\ ~Has(pipelines_, lastArg')) => events' = <<>>]_vars

\* C39: in a render pass that was begun and submitted, storeOp is "discard"
\* only together with a resolve target, and a pass whose color attachment
\* is a render target stores, whatever the MSAA setting.
C39_NoPassDiscardsItsResult ==
  (lastOp = "render" /\ lastResult = "ok" /\ lastPass.begun /\ lastPass.submitted)
  => /\ lastPass.color.storeOp = "discard" => lastPass.color.resolveTarget # Undef
     /\ lastPass.color.source = "renderTarget" => lastPass.color.storeOp = "store"

====
